---------------------------- MODULE Spec2Model ----------------------------
(***************************************************************************)
(* Tab Wrangler background worker: the in-memory tab-time cache            *)
(* (app/js/tabTimesCache.ts), the tab utilities (isTabLocked, the          *)
(* should-be-closed filter) and the alarm-driven service worker            *)
(* (startup, checkToClose, the tab event listeners).                       *)
(*                                                                         *)
(* Time is an integer clock; timestamps are clock values.  Object keys     *)
(* are JavaScript strings: a tab id is stored under String(id), modelled   *)
(* as its sequence of decimal digits, and read back with parseInt.         *)
(* A URL is a sequence of characters.                                      *)
(***************************************************************************)
EXTENDS Integers, Sequences, FiniteSets, TLC

\* ------------------------------------------------------------------ bounds
MaxTabs == 3
NumWindows == 2
MaxMinTabs == 2
MaxTicks == 1
MaxEvents == 1
\* The stayOpen setting, in clock units.
StayOpen == 2
\* The largest maxTabs setting: the size of the archive.
MaxSaved == 2

TabIds == 1..MaxTabs
Windows == 1..NumWindows
\* Date.now() at the first moment of the model.  Date.now() is a count of
\* milliseconds since 1970 and exceeds every stayOpen setting, so the cut-off
\* of a running extension is positive.
Now0 == StayOpen + 2
MaxTime == Now0 + MaxTicks
\* Timestamps a previous run may have left: one older than the first
\* cut-off, and the first cut-off itself (older only after a tick).
Stamps == (Now0 - StayOpen - 1)..(Now0 - StayOpen)

\* ------------------------------------------------------------ JS helpers
Min(a, b) == IF a < b THEN a ELSE b
Max(a, b) == IF a > b THEN a ELSE b

\* String(n) for a non-negative integer: its decimal digits.
RECURSIVE ToStr(_)
ToStr(n) == IF n < 10 THEN <<n>> ELSE Append(ToStr(n \div 10), n % 10)

\* parseInt(s, 10) of a digit string.
RECURSIVE ParseInt(_)
ParseInt(s) ==
    IF Len(s) = 0 THEN 0
    ELSE 10 * ParseInt(SubSeq(s, 1, Len(s) - 1)) + s[Len(s)]

\* Mutant: splice removes one element fewer.
SpliceFirst_OneLess(s, n) == SubSeq(s, 1, Min(Len(s), n) - 1)
\* arr.splice(0, n): the removed elements, i.e. the first n (all if fewer).
SpliceFirst(s, n) == SubSeq(s, 1, Min(Len(s), n))

\* The set of elements of a sequence.
Range(s) == {s[i] : i \in DOMAIN s}

\* obj[k] = v and delete obj[k] on a plain object used as a map.
Put(m, k, v) == [x \in (DOMAIN m) \cup {k} |-> IF x = k THEN v ELSE m[x]]
Del(m, k) == [x \in (DOMAIN m) \ {k} |-> m[x]]
Has(m, k) == k \in DOMAIN m
EmptyMap == [x \in {} |-> 0]

\* url.indexOf(entry) !== -1
Contains(url, entry) ==
    \E i \in 0..(Len(url) - Len(entry)) : SubSeq(url, i + 1, i + Len(entry)) = entry


\* ------------------------------------------------------------- the browser
\* A chrome.tabs.Tab without its id.  windowId 0 marks a tab id that is not
\* open.  chrome.tabs.query gives every tab an id, so the code's branches
\* for a missing id (tab.id == null) are never taken.
NoTab == [windowId |-> 0, url |-> <<>>, pinned |-> FALSE, audible |-> FALSE, groupId |-> -1]

UrlA == <<"a">>
UrlW == <<"a", "w">>
Urls == {UrlA, UrlW}
\* The whitelist setting: UrlW contains its second entry, UrlA none.
Whitelist == << <<"x">>, <<"w">> >>

PlainTabs == [windowId : Windows, url : Urls, pinned : {FALSE}, audible : {FALSE}, groupId : {-1}]
TabShapes ==
    PlainTabs
    \cup [windowId : Windows, url : {UrlA}, pinned : {TRUE}, audible : {FALSE}, groupId : {-1}]
    \cup [windowId : Windows, url : {UrlA}, pinned : {FALSE}, audible : {TRUE}, groupId : {-1}]
    \cup [windowId : Windows, url : {UrlA}, pinned : {FALSE}, audible : {FALSE}, groupId : {1}]

VARIABLES
    now,                  \* Date.now()
    events,               \* number of user events so far
    tabs,                 \* the browser's tabs, by id
    activeTab,            \* the active tab of the last focused window, 0 if none
    settings,             \* the settings store (in memory)
    memoryTabTimes,       \* tabTimesCache.ts: id string -> time
    memoryTabTimesByUrl,  \* tabTimesCache.ts: url -> time
    isInitialized,        \* tabTimesCache.ts
    stTabTimes,           \* chrome.storage.local "tabTimes"
    stTabTimesByUrl,      \* chrome.storage.local "tabTimesByUrl"
    lock,                 \* holder of ASYNC_LOCK "local.tabTimes"
    alarm,                \* the "checkToClose" alarm is pending
    startupComplete,      \* the flag of the service worker
    cyc,                  \* the running checkToClose: position and locals
    st,                   \* the running startup: position and locals
    cycB,                 \* a second checkToClose started while cyc runs
    rep,                  \* the running tabs.onReplaced handler
    lockSettings,         \* holder of ASYNC_LOCK "persist:settings"
    lockLocalStorage,     \* holder of ASYNC_LOCK "persist:localStorage"
    initTabsPc,           \* the initTabs() of a storage.onChanged handler
    slot,                 \* which of the two checkToClose invocations cyc holds
    localStorage,         \* chrome.storage.local "persist:localStorage"
    wr,                   \* the storageLocalPersist object of checkToClose's wrangle step
    man,                  \* the running command "wrangle-current-tab"
    storageFails,         \* chrome.storage.local.set rejects the writes of the tab times
    schedule,             \* the delay of the alarm scheduleCheckToClose created last
    onRemoved,            \* the running windows.onRemoved handler
    timer                 \* debounce.ts: the tab id the pending timer will pass on, 0 if none

\* The state of the handlers that run beside one checkToClose and startup().
ext == <<wr, man, storageFails, schedule, onRemoved, timer>>
more == <<cycB, rep, lockSettings, lockLocalStorage, initTabsPc, slot, localStorage, ext>>
vars == <<now, events, tabs, activeTab, settings, memoryTabTimes, memoryTabTimesByUrl,
          isInitialized, stTabTimes, stTabTimesByUrl, lock, alarm, startupComplete, cyc, st,
          more>>

IsOpen(t, i) == t[i].windowId # 0
OpenIds(t) == {i \in TabIds : IsOpen(t, i)}
TabRec(t, i) == [id |-> i, windowId |-> t[i].windowId, url |-> t[i].url,
                 pinned |-> t[i].pinned, audible |-> t[i].audible, groupId |-> t[i].groupId]

\* chrome.tabs.query({}): the open tabs, in the browser's order.
RECURSIVE QueryFrom(_, _)
QueryFrom(t, i) ==
    IF i > MaxTabs THEN <<>>
    ELSE (IF IsOpen(t, i) THEN <<TabRec(t, i)>> ELSE <<>>) \o QueryFrom(t, i + 1)
QueryAllTabs(t) == QueryFrom(t, 1)

\* chrome.tabs.query({active: true, lastFocusedWindow: true})
QueryActiveTabs(t, a) == IF a # 0 /\ IsOpen(t, a) THEN {a} ELSE {}

\* chrome.windows.getAll({populate: false}): id and focused of every window.
\* A window exists while it has a tab; the focused one holds the active tab.
WindowsGetAll(t, a) ==
    LET ws == {t[i].windowId : i \in OpenIds(t)}
        RECURSIVE From(_)
        From(w) == IF w > NumWindows THEN <<>>
                   ELSE (IF w \in ws
                         THEN <<[id |-> w, focused |-> (a # 0 /\ IsOpen(t, a) /\ t[a].windowId = w)]>>
                         ELSE <<>>) \o From(w + 1)
    IN From(1)

\* ----------------------------------------------------------- tabTimesCache
setTabTimeSilent(m, tabId, time) == Put(m, tabId, time)
setTabTimeByUrlSilent(m, url, time) == Put(m, url, time)
cleanUpTabTimesByUrl(m, aliveUrls) == [u \in (DOMAIN m) \cap aliveUrls |-> m[u]]

\* setTabTimeSilent for every id of a set, with the same time.
RECURSIVE SetAllSilent(_, _, _)
SetAllSilent(m, ids, time) ==
    IF ids = {} THEN m
    ELSE LET i == CHOOSE x \in ids : TRUE
         IN SetAllSilent(setTabTimeSilent(m, ToStr(i), time), ids \ {i}, time)

\* ----------------------------------------------------------------- tabUtil
\* The first whitelist entry the url contains, if any.
getWhitelistMatch(url, whitelist) ==
    LET hits == {k \in DOMAIN whitelist : Contains(url, whitelist[k])}
    IN IF url = <<>> \/ hits = {} THEN [found |-> FALSE, entry |-> <<>>]
       ELSE [found |-> TRUE, entry |-> whitelist[CHOOSE k \in hits : \A j \in hits : k <= j]]

\* Mutant: the locked ids are not looked at.
isTabLocked_NoLockedId(tab, ctx) ==
    LET tabWhitelistMatch == getWhitelistMatch(tab.url, ctx.whitelist)
    IN \/ tab.pinned
       \/ (tabWhitelistMatch.found /\ tabWhitelistMatch.entry # <<>>)
       \/ (ctx.filterGroupedTabs /\ tab.groupId > 0)
       \/ (tab.audible /\ ctx.filterAudio)
\* Mutant: only the locked ids are looked at.
isTabLocked_OnlyLockedId(tab, ctx) == tab.id \in ctx.lockedIds

isTabLocked(tab, ctx) ==
    LET tabWhitelistMatch == getWhitelistMatch(tab.url, ctx.whitelist)
        hasLockedId == tab.id \in ctx.lockedIds
    IN \/ tab.pinned
       \/ (tabWhitelistMatch.found /\ tabWhitelistMatch.entry # <<>>)
       \/ hasLockedId
       \/ (ctx.filterGroupedTabs /\ tab.groupId > 0)
       \/ (tab.audible /\ ctx.filterAudio)

\* The context that createShouldTabBeClosedFilter builds once from the settings.
createShouldTabBeClosedFilter(s) ==
    [filterAudio |-> s.filterAudio, filterGroupedTabs |-> s.filterGroupedTabs,
     lockedIds |-> Range(s.lockedIds), whitelist |-> Whitelist]
shouldTabBeClosed(ctx, tab) == ~isTabLocked(tab, ctx)

\* ------------------------------------------------------------ checkToClose
\* Mutant: a time equal to `time` counts as older.
getTabsOlderThan_Lte(tabTimes, time) ==
    {ParseInt(key) : key \in {k \in DOMAIN tabTimes : time = 0 \/ tabTimes[k] <= time}}
\* Mutant: a falsy `time` selects nothing.
getTabsOlderThan_NoFalsy(tabTimes, time) ==
    {ParseInt(key) : key \in {k \in DOMAIN tabTimes : time # 0 /\ tabTimes[k] < time}}
\* The ids whose time is older than `time`; every id when `time` is falsy.
getTabsOlderThan(tabTimes, time) ==
    {ParseInt(key) : key \in {k \in DOMAIN tabTimes : time = 0 \/ tabTimes[k] < time}}

\* Mutant: every old tab is cut, whatever minTabs allows.
findTabsToCloseCandidates_NoFloor(tabs0, resetIfNoCandidates, c) ==
    LET tabsF == SelectSeq(tabs0, LAMBDA t : shouldTabBeClosed(c.filter, t))
        tabsToCut == SelectSeq(tabsF, LAMBDA t : t.id \in c.toCut)
    IN [cands |-> SelectSeq(tabsToCut, LAMBDA t : t.id \notin c.lockedIds),
        touched |-> {t.id : t \in Range(tabsToCut)} \cap c.lockedIds]

\* Mutant: the floor branch never resets a time.
findTabsToCloseCandidates_NoReset(tabs0, resetIfNoCandidates, c) ==
    LET tabsF == SelectSeq(tabs0, LAMBDA t : shouldTabBeClosed(c.filter, t))
        tabsToCut == SelectSeq(tabsF, LAMBDA t : t.id \in c.toCut)
    IN IF Len(tabsF) - c.minTabs <= 0
       THEN [cands |-> <<>>, touched |-> {}]
       ELSE LET cut == SpliceFirst(tabsToCut, Len(tabsF) - c.minTabs)
            IN [cands |-> SelectSeq(cut, LAMBDA t : t.id \notin c.lockedIds),
                touched |-> {t.id : t \in Range(cut)} \cap c.lockedIds]
\* findTabsToCloseCandidates, for one group of tabs, with the cycle's locals c.
\* cands: the returned tabs; touched: the ids it gives the time c.updatedAt.
findTabsToCloseCandidates(tabs0, resetIfNoCandidates, c) ==
    LET tabsF == SelectSeq(tabs0, LAMBDA t : shouldTabBeClosed(c.filter, t))
        tabsToCut == SelectSeq(tabsF, LAMBDA t : t.id \in c.toCut)
    IN IF Len(tabsF) - c.minTabs <= 0
       THEN [cands |-> <<>>,
             touched |-> IF resetIfNoCandidates THEN {t.id : t \in Range(tabsF)} ELSE {}]
       ELSE LET cut == SpliceFirst(tabsToCut, Len(tabsF) - c.minTabs)
            IN [cands |-> SelectSeq(cut, LAMBDA t : t.id \notin c.lockedIds),
                touched |-> {t.id : t \in Range(cut)} \cap c.lockedIds]

\* The tabs of the snapshot that are in window w (tabsByWindowId[w] || []).
TabsOfWindow(allTabs, w) == SelectSeq(allTabs, LAMBDA t : t.windowId = w)

\* The per-window strategy: every window's candidates, concatenated.
RECURSIVE PerWindow(_, _, _)
PerWindow(windows, allTabs, c) ==
    IF windows = <<>> THEN [cands |-> <<>>, touched |-> {}]
    ELSE LET r == findTabsToCloseCandidates(TabsOfWindow(allTabs, Head(windows).id),
                                            Head(windows).focused, c)
             rest == PerWindow(Tail(windows), allTabs, c)
         IN [cands |-> r.cands \o rest.cands, touched |-> r.touched \cup rest.touched]

\* Lines 683-689: drop the cache entries of tabs that are not in the snapshot.
CleanupAlive(m, allTabs) ==
    LET aliveTabIds == {ToStr(t.id) : t \in Range(allTabs)}
    IN [k \in (DOMAIN m) \cap aliveTabIds |-> m[k]]

\* tabTimes[String(tab.id)] || updatedAt
TimeOr(m, key, updatedAt) == IF Has(m, key) /\ m[key] # 0 THEN m[key] ELSE updatedAt

\* Lines 691-702, the id map: every tab of the snapshot keeps or gets a time.
RECURSIVE FillTimes(_, _, _)
FillTimes(m, allTabs, updatedAt) ==
    IF allTabs = <<>> THEN m
    ELSE LET key == ToStr(Head(allTabs).id)
         IN FillTimes(setTabTimeSilent(m, key, TimeOr(m, key, updatedAt)), Tail(allTabs), updatedAt)

\* Lines 691-702, the url map: in the snapshot's order, each tab with a url
\* stores its time under the url.
RECURSIVE FillUrlTimes(_, _, _)
FillUrlTimes(mu, m, allTabs) ==
    IF allTabs = <<>> THEN mu
    ELSE LET tab == Head(allTabs)
         IN FillUrlTimes(IF tab.url # <<>> THEN setTabTimeByUrlSilent(mu, tab.url, m[ToStr(tab.id)])
                         ELSE mu,
                         m, Tail(allTabs))
AliveUrls(allTabs) == {t.url : t \in {x \in Range(allTabs) : x.url # <<>>}}

\* ---------------------------------------------------------------- tabUtil
\* A closed tab of the archive: the tab with the expando property closedAt.
Closed(tab, closingDate) ==
    [k \in (DOMAIN tab) \cup {"closedAt"} |-> IF k = "closedAt" THEN closingDate ELSE tab[k]]
\* new URL(url).hostname: the first sign of a url of the model.
Hostname(url) == SubSeq(url, 1, 1)
\* Array.findIndex, counted from 1; 0 is the code's -1.
FindIndex(s, P(_)) ==
    IF \E i \in DOMAIN s : P(s[i]) THEN CHOOSE i \in DOMAIN s : P(s[i]) /\ \A j \in 1..(i - 1) : ~P(s[j])
    ELSE 0
findPositionByURL(savedTabs, url) == FindIndex(savedTabs, LAMBDA item : item.url = url)
findPositionByHostnameAndTitle(savedTabs, url, title) ==
    FindIndex(savedTabs, LAMBDA tab : Hostname(tab.url) = Hostname(url) /\ tab.title = title)
getURLPositionFilterByWrangleOption(savedTabs, option, tab) ==
    IF option = "hostnameAndTitleMatch"
    THEN findPositionByHostnameAndTitle(savedTabs, tab.url, tab.title)
    ELSE IF option = "exactURLMatch" THEN findPositionByURL(savedTabs, tab.url)
    ELSE 0
\* arr.splice(pos, 1) and arr.splice(n): what stays in the array.
RemoveAt(s, pos) == SubSeq(s, 1, pos - 1) \o SubSeq(s, pos + 1, Len(s))
SpliceFrom(s, n) == SubSeq(s, 1, Min(Len(s), n))
\* Mutant: the loop of wrangleTabs never removes the existing entry.
WrangleLoop_KeepsExisting(S, batch, option, closingDate) ==
    [savedTabs |-> [i \in 1..Len(batch) |-> Closed(batch[Len(batch) + 1 - i], closingDate)]
                   \o S.savedTabs,
     totalTabsWrangled |-> S.totalTabsWrangled + Len(batch)]
\* The loop of wrangleTabs (lines 60-77): the entry found by the wrangle
\* option is removed, the tab is put in front, the counter grows by one.
RECURSIVE WrangleLoop(_, _, _, _)
WrangleLoop(S, batch, option, closingDate) ==
    IF batch = <<>> THEN S
    ELSE LET pos == getURLPositionFilterByWrangleOption(S.savedTabs, option, Head(batch))
             rest == IF pos > 0 THEN RemoveAt(S.savedTabs, pos) ELSE S.savedTabs
         IN WrangleLoop([savedTabs |-> <<Closed(Head(batch), closingDate)>> \o rest,
                         totalTabsWrangled |-> S.totalTabsWrangled + 1],
                        Tail(batch), option, closingDate)
\* Mutant: wrangleTabs never trims the archive.
Trim_Never(savedTabs, maxTabs) == savedTabs
\* Lines 85-90: the archive is trimmed to maxTabs.
Trim(savedTabs, maxTabs) ==
    IF Len(savedTabs) - maxTabs > 0 THEN SpliceFirst(SpliceFrom(savedTabs, maxTabs), maxTabs)
    ELSE savedTabs
\* wrangleTabs on the object storageLocalPersist; the removal of the tabs
\* (line 81) is part of the actions that call it.
wrangleTabs(storageLocalPersist, batch, maxTabs, option, closingDate) ==
    IF Len(batch) = 0 THEN storageLocalPersist
    ELSE LET S == WrangleLoop(storageLocalPersist, batch, option, closingDate)
         IN [S EXCEPT !.savedTabs = Trim(@, maxTabs)]

\* The archive is followed only by the specifications that start with one.
Untracked == [untracked |-> TRUE]
Persisted(ls, batch, S, closingDate) ==
    IF ls = Untracked THEN ls ELSE wrangleTabs(ls, batch, S.maxTabs, S.wrangleOption, closingDate)
\* No command "wrangle-current-tab" is running.
IdleMan == [pc |-> "idle", tabs |-> <<>>, ls |-> Untracked]
\* No alarm was created yet.
NoSchedule == [stayOpenTime |-> 0, intervalMs |-> 0]

\* The locals of a checkToClose that is not running.
NoFilter == [filterAudio |-> FALSE, filterGroupedTabs |-> FALSE, lockedIds |-> {}, whitelist |-> <<>>]
IdleCyc == [pc |-> "idle", cutOff |-> 0, minTabs |-> 0, allTabs |-> <<>>, tabTimes0 |-> EmptyMap,
            lockedIds |-> {}, toCut |-> {}, updatedAt |-> 0, filter |-> NoFilter,
            strategy |-> "", windows |-> <<>>, candidateTabs |-> <<>>]
StartupDone == [pc |-> "done", tabTimes |-> EmptyMap, tabTimesByUrl |-> EmptyMap,
                allTabs |-> <<>>, now |-> 0]
\* No tabs.onReplaced handler is running.
IdleRep == [pc |-> "idle", addedTabId |-> 0, removedTabId |-> 0]
\* Nothing runs beside the one checkToClose and startup().
MoreIdle ==
    /\ cycB = IdleCyc
    /\ rep = IdleRep
    /\ lockSettings = "free"
    /\ lockLocalStorage = "free"
    /\ initTabsPc = "idle"
    /\ slot = 1
    /\ localStorage = Untracked
    /\ wr = Untracked
    /\ man = IdleMan
    /\ storageFails = FALSE
    /\ schedule = NoSchedule
    /\ onRemoved = "idle"
    /\ timer = 0

\* chrome.alarms.onAlarm: the "checkToClose" alarm fires and checkToClose starts
\* (line 575), up to its await of getStorageSyncPersist.
AlarmFires ==
    /\ alarm
    /\ cyc.pc = "idle"
    /\ alarm' = FALSE
    /\ cyc' = [IdleCyc EXCEPT !.pc = "paused"]
    /\ UNCHANGED <<more, now, events, tabs, activeTab, settings, memoryTabTimes, memoryTabTimesByUrl,
                   isInitialized, stTabTimes, stTabTimesByUrl, lock, startupComplete, st>>

\* Mutant: the active tab is refreshed before the paused flag is looked at.
CheckPaused_TouchesActive ==
    /\ cyc.pc = "paused"
    /\ memoryTabTimes' = SetAllSilent(memoryTabTimes, QueryActiveTabs(tabs, activeTab), now)
    /\ \E paused \in BOOLEAN :
         cyc' = IF paused THEN [cyc EXCEPT !.pc = "finally"]
                ELSE [cyc EXCEPT !.pc = "waitLock", !.cutOff = now - StayOpen,
                                 !.minTabs = settings.minTabs]
    /\ UNCHANGED <<more, now, events, tabs, activeTab, settings, memoryTabTimesByUrl,
                   isInitialized, stTabTimes, stTabTimesByUrl, lock, alarm, startupComplete, st>>
\* Lines 577-582: the paused flag read from sync storage; the cut-off and
\* minTabs; the request for the lock "local.tabTimes".
CheckPaused ==
    /\ cyc.pc = "paused"
    /\ \E paused \in BOOLEAN :
         cyc' = IF paused THEN [cyc EXCEPT !.pc = "finally"]
                ELSE [cyc EXCEPT !.pc = "waitLock", !.cutOff = now - StayOpen,
                                 !.minTabs = settings.minTabs]
    /\ UNCHANGED <<more, now, events, tabs, activeTab, settings, memoryTabTimes, memoryTabTimesByUrl,
                   isInitialized, stTabTimes, stTabTimesByUrl, lock, alarm, startupComplete, st>>

\* Mutant: checkToClose enters its critical section without the lock.
AcquireTabTimes_NoWait ==
    /\ cyc.pc = "waitLock"
    /\ lock' = "checkToClose"
    /\ cyc' = [cyc EXCEPT !.pc = "query"]
    /\ UNCHANGED <<more, now, events, tabs, activeTab, settings, memoryTabTimes, memoryTabTimesByUrl,
                   isInitialized, stTabTimes, stTabTimesByUrl, alarm, startupComplete, st>>
\* ASYNC_LOCK grants "local.tabTimes"; line 583 asks for the tabs.
AcquireTabTimes ==
    /\ cyc.pc = "waitLock"
    /\ lock = "free"
    /\ lock' = "checkToClose"
    /\ cyc' = [cyc EXCEPT !.pc = "query"]
    /\ UNCHANGED <<more, now, events, tabs, activeTab, settings, memoryTabTimes, memoryTabTimesByUrl,
                   isInitialized, stTabTimes, stTabTimesByUrl, alarm, startupComplete, st>>

\* Lines 583-592: the snapshot of all tabs, the cache, lockedIds, toCut,
\* updatedAt; then the await of the active tabs.
CutStep ==
    /\ cyc.pc = "query"
    /\ cyc' = [cyc EXCEPT !.pc = "active",
                          !.allTabs = QueryAllTabs(tabs),
                          !.tabTimes0 = memoryTabTimes,
                          !.lockedIds = Range(settings.lockedIds),
                          !.toCut = getTabsOlderThan(memoryTabTimes, cyc.cutOff),
                          !.updatedAt = now]
    /\ UNCHANGED <<more, now, events, tabs, activeTab, settings, memoryTabTimes, memoryTabTimesByUrl,
                   isInitialized, stTabTimes, stTabTimesByUrl, lock, alarm, startupComplete, st>>

\* Lines 593-605: the active tabs and, with filterAudio, the audible tabs of
\* the snapshot get the time updatedAt.
RefreshExempt(m, c) ==
    LET m1 == SetAllSilent(m, QueryActiveTabs(tabs, activeTab), c.updatedAt)
    IN IF settings.filterAudio
       THEN SetAllSilent(m1, {t.id : t \in {x \in Range(c.allTabs) : x.audible}}, c.updatedAt)
       ELSE m1

\* Lines 683-706 on the cache m: clean up, refill both maps, force the sync.
\* forceSyncTabTimes catches a rejected write (tabTimesCache.ts lines 76-78).
FinishCycle(m, c) ==
    LET m1 == FillTimes(CleanupAlive(m, c.allTabs), c.allTabs, c.updatedAt)
        mu == cleanUpTabTimesByUrl(FillUrlTimes(memoryTabTimesByUrl, m1, c.allTabs),
                                   AliveUrls(c.allTabs))
    IN /\ memoryTabTimes' = m1
       /\ memoryTabTimesByUrl' = mu
       /\ IF isInitialized /\ ~storageFails
          THEN stTabTimes' = m1 /\ stTabTimesByUrl' = mu
          ELSE UNCHANGED <<stTabTimes, stTabTimesByUrl>>

\* Lines 593-657: refresh the exempt tabs, build the filter, read the
\* strategy.  "allWindows": one group of all tabs, then lines 683-706.
\* Otherwise: the await of chrome.windows.getAll.
SelectStep ==
    /\ cyc.pc = "active"
    /\ LET m == RefreshExempt(memoryTabTimes, cyc)
           c == [cyc EXCEPT !.filter = createShouldTabBeClosedFilter(settings),
                            !.strategy = settings.minTabsStrategy]
       IN IF settings.minTabsStrategy = "allWindows"
          THEN LET r == findTabsToCloseCandidates(c.allTabs, FALSE, c)
               IN /\ cyc' = [c EXCEPT !.pc = "sync", !.candidateTabs = r.cands]
                  /\ FinishCycle(SetAllSilent(m, r.touched, c.updatedAt), c)
          ELSE /\ cyc' = [c EXCEPT !.pc = "windows"]
               /\ memoryTabTimes' = m
               /\ UNCHANGED <<memoryTabTimesByUrl, stTabTimes, stTabTimesByUrl>>
    /\ UNCHANGED <<more, now, events, tabs, activeTab, settings, isInitialized, lock, alarm,
                   startupComplete, st>>

\* Lines 658-706: the windows, one group per window, then the cleanup and
\* the forced sync.
WindowsStep ==
    /\ cyc.pc = "windows"
    /\ LET c == [cyc EXCEPT !.windows = WindowsGetAll(tabs, activeTab)]
           r == PerWindow(c.windows, c.allTabs, c)
       IN /\ cyc' = [c EXCEPT !.pc = "sync", !.candidateTabs = r.cands]
          /\ FinishCycle(SetAllSilent(memoryTabTimes, r.touched, c.updatedAt), c)
    /\ UNCHANGED <<more, now, events, tabs, activeTab, settings, isInitialized, lock, alarm,
                   startupComplete, st>>

\* Lines 708-715: the sync has returned; the lock is released and the
\* candidates are the tabs to close.
ReleaseStep ==
    /\ cyc.pc = "sync"
    /\ lock' = "free"
    /\ cyc' = [cyc EXCEPT !.pc = IF Len(cyc.candidateTabs) > 0 THEN "wrangle" ELSE "finally"]
    /\ UNCHANGED <<more, now, events, tabs, activeTab, settings, memoryTabTimes, memoryTabTimesByUrl,
                   isInitialized, stTabTimes, stTabTimesByUrl, alarm, startupComplete, st>>

\* settings.unlockTab(tabId): the id leaves lockedIds.
unlockTab(lockedIds, tabId) == SelectSeq(lockedIds, LAMBDA x : x # tabId)

\* The browser closes the tabs of a set; tabs.onRemoved runs removeTab for
\* each, which unlocks it at once.  When the active tab closes the browser
\* activates another open tab (here the first).
CloseTabs(ids) ==
    LET left == [i \in TabIds |-> IF i \in ids THEN NoTab ELSE tabs[i]]
    IN /\ tabs' = left
       /\ settings' = [settings EXCEPT !.lockedIds = SelectSeq(@, LAMBDA x : x \notin ids)]
       /\ IF activeTab \in ids
          THEN IF OpenIds(left) = {} THEN activeTab' = 0
               ELSE activeTab' = CHOOSE i \in OpenIds(left) : \A j \in OpenIds(left) : i <= j
          ELSE UNCHANGED activeTab

\* Mutant: the wrangle step leaves the candidates open.
WrangleStep_KeepsTabs ==
    /\ cyc.pc = "wrangle"
    /\ cyc' = [cyc EXCEPT !.pc = "finally"]
    /\ UNCHANGED <<more, now, events, tabs, activeTab, settings, memoryTabTimes, memoryTabTimesByUrl,
                   isInitialized, stTabTimes, stTabTimesByUrl, lock, alarm, startupComplete, st>>
\* Lines 715-723: wrangleTabs archives the tabs to close and removes them
\* from the browser (chrome.tabs.remove).
WrangleStep ==
    /\ cyc.pc = "wrangle"
    /\ CloseTabs({t.id : t \in Range(cyc.candidateTabs)} \cap OpenIds(tabs))
    /\ localStorage' = Persisted(localStorage, cyc.candidateTabs, settings, now)
    /\ cyc' = [cyc EXCEPT !.pc = "finally"]
    /\ UNCHANGED <<cycB, rep, lockSettings, lockLocalStorage, initTabsPc, slot, ext, now, events,
                   memoryTabTimes, memoryTabTimesByUrl, isInitialized, stTabTimes,
                   stTabTimesByUrl, lock, alarm, startupComplete, st>>

\* Mutant: checkToClose returns without scheduling the next one.
FinallyStep_NoSchedule ==
    /\ cyc.pc = "finally"
    /\ cyc' = IdleCyc
    /\ UNCHANGED <<more, now, events, tabs, activeTab, settings, memoryTabTimes, memoryTabTimesByUrl,
                   isInitialized, stTabTimes, stTabTimesByUrl, lock, alarm, startupComplete, st>>
\* Lines 726-731 and scheduleCheckToClose: the alarm is created again.
FinallyStep ==
    /\ cyc.pc = "finally"
    /\ alarm' = TRUE
    /\ cyc' = IdleCyc
    /\ UNCHANGED <<more, now, events, tabs, activeTab, settings, memoryTabTimes, memoryTabTimesByUrl,
                   isInitialized, stTabTimes, stTabTimesByUrl, lock, startupComplete, st>>

\* ------------------------------------------------------------ environment
\* Time passes.  Date.now() is read when a cycle computes its cut-off (line
\* 580) and its updatedAt (line 589), so time is advanced before those reads.
Tick ==
    /\ now < MaxTime
    /\ cyc.pc \in {"idle", "query"}
    /\ now' = now + 1
    /\ UNCHANGED <<more, events, tabs, activeTab, settings, memoryTabTimes, memoryTabTimesByUrl,
                   isInitialized, stTabTimes, stTabTimesByUrl, lock, alarm, startupComplete,
                   cyc, st>>

\* User events are explored once the running checkToClose has taken its
\* snapshot of the tabs: before that they lead to states the initial states cover.
AfterSnapshot == cyc.pc \in {"active", "windows", "sync", "wrangle"}

\* The user closes a tab (tabs.onRemoved, removeTab).
UserClosesTab ==
    /\ AfterSnapshot
    /\ events < MaxEvents
    /\ events' = events + 1
    /\ \E i \in OpenIds(tabs) : CloseTabs({i})
    /\ UNCHANGED <<more, now, memoryTabTimes, memoryTabTimesByUrl, isInitialized, stTabTimes,
                   stTabTimesByUrl, lock, alarm, startupComplete, cyc, st>>

\* The command "lock-unlock-active-tab": settings.toggleTabs on the active tab.
toggleTabs(lockedIds, tabId) ==
    IF tabId \in Range(lockedIds) THEN unlockTab(lockedIds, tabId) ELSE Append(lockedIds, tabId)
ToggleLock ==
    /\ AfterSnapshot
    /\ events < MaxEvents
    /\ events' = events + 1
    /\ QueryActiveTabs(tabs, activeTab) # {}
    /\ settings' = [settings EXCEPT !.lockedIds = toggleTabs(@, activeTab)]
    /\ UNCHANGED <<more, now, tabs, activeTab, memoryTabTimes, memoryTabTimesByUrl, isInitialized,
                   stTabTimes, stTabTimesByUrl, lock, alarm, startupComplete, cyc, st>>

\* --------------------------------------------------------- specification
\* The extension after startup(): the cache holds a time for every open tab,
\* storage mirrors the cache, and the first alarm is pending.
FirstAndLast(S) == {i \in S : (\A j \in S : i <= j) \/ (\A j \in S : j <= i)}
\* The initial states are bounded to at most one tab that some rule of
\* isTabLocked exempts (pinned, whitelisted url, locked id, grouped, audible);
\* a filter setting is on only where a tab it applies to exists; the active
\* tab is the first or the last tab.
Special(t) == t.windowId # 0 /\ (t \notin PlainTabs \/ t.url = UrlW)
WindowsInOrder(t) ==
    \A i, j \in OpenIds(t) : i < j => t[i].windowId <= t[j].windowId
InitSettings ==
    [minTabs : 0..MaxMinTabs, minTabsStrategy : {"allWindows", "givenWindow"},
     filterAudio : BOOLEAN, filterGroupedTabs : BOOLEAN,
     lockedIds : {<<>>} \cup {<<i>> : i \in TabIds},
     maxTabs : {MaxSaved}, wrangleOption : {"withDuplicates"}]
InitAt(clock, stamps) ==
    /\ now = clock
    /\ events = 0
    /\ tabs \in [TabIds -> TabShapes \cup {NoTab}]
    /\ WindowsInOrder(tabs)
    /\ activeTab \in (IF OpenIds(tabs) = {} THEN {0} ELSE FirstAndLast(OpenIds(tabs)))
    /\ settings \in InitSettings
    /\ Range(settings.lockedIds) \subseteq OpenIds(tabs)
    /\ Cardinality({i \in TabIds : Special(tabs[i])}) + Len(settings.lockedIds) <= 1
    /\ settings.filterAudio => \E i \in TabIds : tabs[i].audible
    /\ settings.filterGroupedTabs => \E i \in TabIds : tabs[i].groupId > 0
    /\ memoryTabTimes \in [{ToStr(i) : i \in OpenIds(tabs)} -> stamps]
    /\ memoryTabTimesByUrl = FillUrlTimes(EmptyMap, memoryTabTimes, QueryAllTabs(tabs))
    /\ isInitialized = TRUE
    /\ stTabTimes = memoryTabTimes
    /\ stTabTimesByUrl = memoryTabTimesByUrl
    /\ lock = "free"
    /\ alarm = TRUE
    /\ startupComplete = TRUE
    /\ cyc = IdleCyc
    /\ st = StartupDone
    /\ MoreIdle
Init == InitAt(Now0, Stamps)

Next ==
    \/ AlarmFires
    \/ CheckPaused
    \/ AcquireTabTimes
    \/ CutStep
    \/ SelectStep
    \/ WindowsStep
    \/ ReleaseStep
    \/ WrangleStep
    \/ FinallyStep
    \/ Tick
    \/ UserClosesTab
    \/ ToggleLock

Spec == Init /\ [][Next]_vars

\* The same extension with a stayOpen setting equal to Date.now(): the
\* cut-off of every cycle is zero.  Time stands still.
InitZero == InitAt(StayOpen, 1..StayOpen)
NextZero ==
    \/ AlarmFires
    \/ CheckPaused
    \/ AcquireTabTimes
    \/ CutStep
    \/ SelectStep
    \/ WindowsStep
    \/ ReleaseStep
    \/ WrangleStep
    \/ FinallyStep
    \/ UserClosesTab
    \/ ToggleLock
SpecZero == InitZero /\ [][NextZero]_vars

\* ------------------------------------------------------------------ startup
\* Mutant: the URL-keyed time is preferred to the id-keyed one.
RECURSIVE NextTabTimes_UrlFirst(_, _, _, _, _)
NextTabTimes_UrlFirst(allTabs, tabTimes, tabTimesByUrl, time, acc) ==
    IF allTabs = <<>> THEN acc
    ELSE LET tab == Head(allTabs)
             v == IF tab.url # <<>> /\ Has(tabTimesByUrl, tab.url) THEN tabTimesByUrl[tab.url]
                  ELSE IF Has(tabTimes, ToStr(tab.id)) THEN tabTimes[ToStr(tab.id)]
                  ELSE time
         IN NextTabTimes_UrlFirst(Tail(allTabs), tabTimes, tabTimesByUrl, time,
                                  Put(acc, ToStr(tab.id), v))
\* The loop of startup() that builds nextTabTimes from the open tabs: the
\* stored time of the id, else the stored time of the url, else `time`.
RECURSIVE NextTabTimes(_, _, _, _, _)
NextTabTimes(allTabs, tabTimes, tabTimesByUrl, time, acc) ==
    IF allTabs = <<>> THEN acc
    ELSE LET tab == Head(allTabs)
             v == IF Has(tabTimes, ToStr(tab.id)) THEN tabTimes[ToStr(tab.id)]
                  ELSE IF tab.url # <<>> /\ Has(tabTimesByUrl, tab.url) THEN tabTimesByUrl[tab.url]
                  ELSE time
         IN NextTabTimes(Tail(allTabs), tabTimes, tabTimesByUrl, time,
                         Put(acc, ToStr(tab.id), v))

\* tabTimesCache.setTabTime
setTabTime(m, tabId, time) == Put(m, tabId, time)
\* updateLastAccessed called with a tab id: the time is Date.now().
updateLastAccessed(m, tabId, time) == setTabTime(m, ToStr(tabId), time)
\* onNewTab: every tab of the model has an id.
onNewTab(m, tabId, time) == updateLastAccessed(m, tabId, time)
\* Mutant: the listener does not look at startupComplete.
onCreated_NoGuard(complete, m, tabId, time) == onNewTab(m, tabId, time)
\* The tabs.onCreated listener: nothing while startup has not completed.
onCreated(complete, m, tabId, time) ==
    IF ~complete THEN m ELSE onNewTab(m, tabId, time)

StartupIdle == [pc |-> "init", tabTimes |-> EmptyMap, tabTimesByUrl |-> EmptyMap,
                allTabs |-> <<>>, now |-> 0]

\* startup() up to ASYNC_LOCK.acquire("local.tabTimes"), once the lock is free.
StartupAcquire ==
    /\ st.pc = "init"
    /\ lock = "free"
    /\ lock' = "startup"
    /\ st' = [st EXCEPT !.pc = "read"]
    /\ UNCHANGED <<more, now, events, tabs, activeTab, settings, memoryTabTimes, memoryTabTimesByUrl,
                   isInitialized, stTabTimes, stTabTimesByUrl, alarm, startupComplete, cyc>>
\* chrome.storage.local.get({tabTimes, tabTimesByUrl}) resolves.
StartupRead ==
    /\ st.pc = "read"
    /\ st' = [st EXCEPT !.pc = "query", !.tabTimes = stTabTimes,
                        !.tabTimesByUrl = stTabTimesByUrl]
    /\ UNCHANGED <<more, now, events, tabs, activeTab, settings, memoryTabTimes, memoryTabTimesByUrl,
                   isInitialized, stTabTimes, stTabTimesByUrl, lock, alarm, startupComplete, cyc>>
\* chrome.tabs.query({}) resolves: nextTabTimes is built, initTabTimes fills
\* the cache and forceSyncTabTimes writes it to storage.
StartupMigrate ==
    /\ st.pc = "query"
    /\ LET allTabs == QueryAllTabs(tabs)
           nextTabTimes == NextTabTimes(allTabs, st.tabTimes, st.tabTimesByUrl, now, EmptyMap)
       IN /\ st' = [st EXCEPT !.pc = "sync", !.allTabs = allTabs, !.now = now]
          /\ memoryTabTimes' = nextTabTimes
          /\ memoryTabTimesByUrl' = st.tabTimesByUrl
          /\ isInitialized' = TRUE
          /\ stTabTimes' = nextTabTimes
          /\ stTabTimesByUrl' = st.tabTimesByUrl
    /\ UNCHANGED <<more, now, events, tabs, activeTab, settings, lock, alarm, startupComplete, cyc>>
\* The write resolves, the lock is released, startupComplete is set and
\* scheduleCheckToClose creates the alarm.
StartupFinish ==
    /\ st.pc = "sync"
    /\ lock' = "free"
    /\ startupComplete' = TRUE
    /\ alarm' = TRUE
    /\ st' = [st EXCEPT !.pc = "done"]
    /\ UNCHANGED <<more, now, events, tabs, activeTab, settings, memoryTabTimes, memoryTabTimesByUrl,
                   isInitialized, stTabTimes, stTabTimesByUrl, cyc>>
\* The browser opens a tab; its id is larger than every id in use.
BrowserCreatesTab ==
    /\ \E i \in TabIds : \E shape \in {p \in PlainTabs : p.windowId = 1} :
         /\ \A j \in TabIds : IsOpen(tabs, j) => j < i
         /\ tabs' = [tabs EXCEPT ![i] = shape]
    /\ UNCHANGED <<more, now, events, activeTab, settings, memoryTabTimes, memoryTabTimesByUrl,
                   isInitialized, stTabTimes, stTabTimesByUrl, lock, alarm, startupComplete,
                   cyc, st>>
\* tabs.onCreated is delivered for an open tab (a restored or a new one).
OnCreated ==
    /\ events < MaxEvents
    /\ events' = events + 1
    /\ \E i \in OpenIds(tabs) :
         memoryTabTimes' = onCreated(startupComplete, memoryTabTimes, i, now)
    /\ UNCHANGED <<more, now, tabs, activeTab, settings, memoryTabTimesByUrl, isInitialized,
                   stTabTimes, stTabTimesByUrl, lock, alarm, startupComplete, cyc, st>>
\* Time passes while startup() runs.
TickStartup ==
    /\ now < MaxTime
    /\ st.pc \in {"init", "query"}
    /\ now' = now + 1
    /\ UNCHANGED <<more, events, tabs, activeTab, settings, memoryTabTimes, memoryTabTimesByUrl,
                   isInitialized, stTabTimes, stTabTimesByUrl, lock, alarm, startupComplete,
                   cyc, st>>

\* The service worker starts: the cache is empty, storage holds the maps of
\* the previous run.  An id-keyed time is IdStamp, a url-keyed time UrlStamp;
\* StaleId is the id of a tab that no longer exists, UrlOld the url of one.
IdStamp == Now0 - 3
UrlStamp == Now0 - 2
StaleId == MaxTabs + 1
UrlOld == <<"o">>
NoUrlTab == [windowId |-> 1, url |-> <<>>, pinned |-> FALSE, audible |-> FALSE, groupId |-> -1]
InitStartup ==
    /\ now = Now0
    /\ events = 0
    /\ tabs \in [TabIds -> {p \in PlainTabs : p.windowId = 1} \cup {NoUrlTab, NoTab}]
    /\ activeTab = 0
    /\ settings = [minTabs |-> 0, minTabsStrategy |-> "allWindows", filterAudio |-> FALSE,
                   filterGroupedTabs |-> FALSE, lockedIds |-> <<>>,
                   maxTabs |-> MaxSaved, wrangleOption |-> "withDuplicates"]
    /\ memoryTabTimes = EmptyMap
    /\ memoryTabTimesByUrl = EmptyMap
    /\ isInitialized = FALSE
    /\ \E ids \in SUBSET (TabIds \cup {StaleId}) : stTabTimes = [k \in {ToStr(i) : i \in ids} |-> IdStamp]
    /\ \E us \in SUBSET {UrlA, UrlW, UrlOld} : stTabTimesByUrl = [u \in us |-> UrlStamp]
    /\ lock = "free"
    /\ alarm = FALSE
    /\ startupComplete = FALSE
    /\ cyc = IdleCyc
    /\ st = StartupIdle
    /\ MoreIdle
NextStartup ==
    \/ StartupAcquire
    \/ StartupRead
    \/ StartupMigrate
    \/ StartupFinish
    \/ BrowserCreatesTab
    \/ OnCreated
    \/ TickStartup
SpecStartup == InitStartup /\ [][NextStartup]_vars

\* ------------------------------------------------- the worker wakes up
\* The service worker is started by the browser, possibly by the alarm a
\* former run left pending: startup() and checkToClose run side by side, and
\* so do the handlers of tabs.onReplaced and storage.onChanged.

\* chrome.alarms.onAlarm while a checkToClose is running: the listener starts
\* another one.  The model holds two: cyc and cycB.
AlarmFiresAgain ==
    /\ alarm
    /\ cyc.pc # "idle"
    /\ cycB.pc = "idle"
    /\ alarm' = FALSE
    /\ cycB' = [IdleCyc EXCEPT !.pc = "paused"]
    /\ UNCHANGED <<now, events, tabs, activeTab, settings, memoryTabTimes, memoryTabTimesByUrl,
                   isInitialized, stTabTimes, stTabTimesByUrl, lock, startupComplete, cyc, st,
                   rep, lockSettings, lockLocalStorage, initTabsPc, slot, localStorage, ext>>
\* The two invocations run the same code: the actions of checkToClose are
\* written for cyc, and the other invocation takes its steps after a switch.
\* A lock held by one is named after the place it holds.
SwapName(h) ==
    IF h = "checkToClose" THEN "checkToCloseB"
    ELSE IF h = "checkToCloseB" THEN "checkToClose" ELSE h
Switch ==
    /\ cycB.pc # "idle"
    /\ cyc' = cycB
    /\ cycB' = cyc
    /\ slot' = 3 - slot
    /\ lock' = SwapName(lock)
    /\ lockLocalStorage' = SwapName(lockLocalStorage)
    /\ UNCHANGED <<now, events, tabs, activeTab, settings, memoryTabTimes, memoryTabTimesByUrl,
                   isInitialized, stTabTimes, stTabTimesByUrl, alarm, startupComplete, st,
                   rep, lockSettings, initTabsPc, localStorage, ext>>

\* An awaited call of checkToClose rejects (getStorageSyncPersist, the tab
\* queries, chrome.windows.getAll): the lock, if held, is released, the catch
\* of line 724 logs the error and the finally block follows.
CycleThrows ==
    /\ cyc.pc \in {"paused", "query", "active", "windows"}
    /\ cyc' = [cyc EXCEPT !.pc = "finally"]
    /\ lock' = IF cyc.pc = "paused" THEN lock ELSE "free"
    /\ UNCHANGED <<now, events, tabs, activeTab, settings, memoryTabTimes, memoryTabTimesByUrl,
                   isInitialized, stTabTimes, stTabTimesByUrl, alarm, startupComplete, st,
                   more>>

\* Lines 715-716: ASYNC_LOCK grants "persist:localStorage" to the wrangle step.
WrangleAcquire ==
    /\ cyc.pc = "wrangle"
    /\ lockLocalStorage = "free"
    /\ lockLocalStorage' = "checkToClose"
    /\ cyc' = [cyc EXCEPT !.pc = "wrangleGet"]
    /\ UNCHANGED <<now, events, tabs, activeTab, settings, memoryTabTimes, memoryTabTimesByUrl,
                   isInitialized, stTabTimes, stTabTimesByUrl, lock, alarm, startupComplete, st,
                   cycB, rep, lockSettings, initTabsPc, slot, localStorage, ext>>
\* ASYNC_LOCK grants a lock to the invocation that is not the one in cyc.
AcquireTabTimesB ==
    /\ cycB.pc = "waitLock"
    /\ lock = "free"
    /\ lock' = "checkToCloseB"
    /\ cycB' = [cycB EXCEPT !.pc = "query"]
    /\ UNCHANGED <<now, events, tabs, activeTab, settings, memoryTabTimes, memoryTabTimesByUrl,
                   isInitialized, stTabTimes, stTabTimesByUrl, alarm, startupComplete, cyc, st,
                   rep, lockSettings, lockLocalStorage, initTabsPc, slot, localStorage, ext>>
WrangleAcquireB ==
    /\ cycB.pc = "wrangle"
    /\ lockLocalStorage = "free"
    /\ lockLocalStorage' = "checkToCloseB"
    /\ cycB' = [cycB EXCEPT !.pc = "wrangleGet"]
    /\ UNCHANGED <<now, events, tabs, activeTab, settings, memoryTabTimes, memoryTabTimesByUrl,
                   isInitialized, stTabTimes, stTabTimesByUrl, lock, alarm, startupComplete, cyc, st,
                   rep, lockSettings, initTabsPc, slot, localStorage, ext>>
\* Lines 716-718: getStorageLocalPersist has returned; wrangleTabs removes
\* the tabs; the write of "persist:localStorage" is awaited.
WrangleTabs ==
    /\ cyc.pc = "wrangleGet"
    /\ CloseTabs({t.id : t \in Range(cyc.candidateTabs)} \cap OpenIds(tabs))
    /\ wr' = Persisted(localStorage, cyc.candidateTabs, settings, now)
    /\ cyc' = [cyc EXCEPT !.pc = "wrangleSet"]
    /\ UNCHANGED <<now, events, memoryTabTimes, memoryTabTimesByUrl, isInitialized,
                   stTabTimes, stTabTimesByUrl, lock, alarm, startupComplete, st,
                   cycB, rep, lockSettings, lockLocalStorage, initTabsPc, slot, localStorage,
                   man, storageFails, schedule, onRemoved, timer>>
\* Lines 719-723: the write has returned and the lock is released.
WranglePersisted ==
    /\ cyc.pc = "wrangleSet"
    /\ localStorage' = wr
    /\ wr' = Untracked
    /\ lockLocalStorage' = "free"
    /\ cyc' = [cyc EXCEPT !.pc = "finally"]
    /\ UNCHANGED <<now, events, tabs, activeTab, settings, memoryTabTimes, memoryTabTimesByUrl,
                   isInitialized, stTabTimes, stTabTimesByUrl, lock, alarm, startupComplete, st,
                   cycB, rep, lockSettings, initTabsPc, slot, man, storageFails, schedule, onRemoved, timer>>
\* getStorageLocalPersist or the write rejects: the lock is released and the
\* catch and the finally block follow.
WrangleThrows ==
    /\ cyc.pc \in {"wrangleGet", "wrangleSet"}
    /\ wr' = Untracked
    /\ lockLocalStorage' = "free"
    /\ cyc' = [cyc EXCEPT !.pc = "finally"]
    /\ UNCHANGED <<now, events, tabs, activeTab, settings, memoryTabTimes, memoryTabTimesByUrl,
                   isInitialized, stTabTimes, stTabTimesByUrl, lock, alarm, startupComplete, st,
                   cycB, rep, lockSettings, initTabsPc, slot, localStorage, man, storageFails,
                   schedule, onRemoved, timer>>

\* tabTimesCache.setTabTimes
RECURSIVE setTabTimes(_, _, _)
setTabTimes(m, tabIds, time) ==
    IF tabIds = <<>> THEN m
    ELSE setTabTimes(setTabTime(m, Head(tabIds), time), Tail(tabIds), time)
\* tabs.map((tab) => String(tab.id))
RECURSIVE MapIds(_)
MapIds(allTabs) ==
    IF allTabs = <<>> THEN <<>> ELSE <<ToStr(Head(allTabs).id)>> \o MapIds(Tail(allTabs))

\* storage.onChanged, area "sync", with a change of the inactivity settings
\* (lines 519-527): initTabs() is started and the check is scheduled again.
\* The new value is taken to leave stayOpen as it was.
SettingsChanged ==
    /\ events < MaxEvents
    /\ events' = events + 1
    /\ initTabsPc = "idle"
    /\ initTabsPc' = "query"
    /\ alarm' = TRUE
    /\ UNCHANGED <<now, tabs, activeTab, settings, memoryTabTimes, memoryTabTimesByUrl,
                   isInitialized, stTabTimes, stTabTimesByUrl, lock, startupComplete, cyc, st,
                   cycB, rep, lockSettings, lockLocalStorage, slot, localStorage, ext>>
\* initTabs: the tabs are known and setTabTimes gives each the time Date.now().
\* The write is taken to wait for the lock "local.tabTimes", as every write of
\* the maps outside the cache module does.
InitTabsRun ==
    /\ initTabsPc = "query"
    /\ lock = "free"
    /\ memoryTabTimes' = setTabTimes(memoryTabTimes, MapIds(QueryAllTabs(tabs)), now)
    /\ initTabsPc' = "idle"
    /\ UNCHANGED <<now, events, tabs, activeTab, settings, memoryTabTimesByUrl,
                   isInitialized, stTabTimes, stTabTimesByUrl, lock, alarm, startupComplete,
                   cyc, st, cycB, rep, lockSettings, lockLocalStorage, slot, localStorage, ext>>

\* The browser replaces a tab by another (tabs.onReplaced): the handler asks
\* for the locks "local.tabTimes" and "persist:settings" (line 471).
ReplaceEvent ==
    /\ events < MaxEvents
    /\ events' = events + 1
    /\ rep.pc = "idle"
    /\ \E removedTabId \in OpenIds(tabs) : \E addedTabId \in TabIds \ OpenIds(tabs) :
         /\ tabs' = [tabs EXCEPT ![addedTabId] = tabs[removedTabId], ![removedTabId] = NoTab]
         /\ activeTab' = IF activeTab = removedTabId THEN addedTabId ELSE activeTab
         /\ rep' = [pc |-> "waitLock", addedTabId |-> addedTabId, removedTabId |-> removedTabId]
    /\ UNCHANGED <<now, settings, memoryTabTimes, memoryTabTimesByUrl, isInitialized,
                   stTabTimes, stTabTimesByUrl, lock, alarm, startupComplete, cyc, st,
                   cycB, lockSettings, lockLocalStorage, initTabsPc, slot, localStorage, ext>>
\* ASYNC_LOCK grants both names at once; chrome.storage.sync.get is awaited.
ReplaceAcquire ==
    /\ rep.pc = "waitLock"
    /\ lock = "free"
    /\ lockSettings = "free"
    /\ lock' = "replaceTab"
    /\ lockSettings' = "replaceTab"
    /\ rep' = [rep EXCEPT !.pc = "get"]
    /\ UNCHANGED <<now, events, tabs, activeTab, settings, memoryTabTimes, memoryTabTimesByUrl,
                   isInitialized, stTabTimes, stTabTimesByUrl, alarm, startupComplete,
                   cyc, st, cycB, lockLocalStorage, initTabsPc, slot, localStorage, ext>>
\* lockedIds.splice(lockedIds.indexOf(removedTabId), 1, addedTabId)
\* at the first position of removedTabId.
ReplaceLockedId(lockedIds, removedTabId, addedTabId) ==
    LET at == FindIndex(lockedIds, LAMBDA id : id = removedTabId)
    IN [k \in DOMAIN lockedIds |-> IF k = at THEN addedTabId ELSE lockedIds[k]]
\* Mutant: the time of the removed tab is copied and not deleted.
ReplaceTimes_KeepsRemoved ==
    LET key == ToStr(rep.removedTabId)
    IN IF Has(memoryTabTimes, key) /\ memoryTabTimes[key] # 0
       THEN LET m == setTabTimeSilent(memoryTabTimes, ToStr(rep.addedTabId), memoryTabTimes[key])
            IN /\ memoryTabTimes' = m
               /\ IF isInitialized /\ ~storageFails
                  THEN stTabTimes' = m /\ stTabTimesByUrl' = memoryTabTimesByUrl
                  ELSE UNCHANGED <<stTabTimes, stTabTimesByUrl>>
               /\ rep' = [rep EXCEPT !.pc = "sync"]
               /\ UNCHANGED <<lock, lockSettings>>
       ELSE /\ rep' = IdleRep
            /\ lock' = "free"
            /\ lockSettings' = "free"
            /\ UNCHANGED <<memoryTabTimes, stTabTimes, stTabTimesByUrl>>
\* Lines 481-488: the time of the removed tab goes to the added one and the
\* maps are written by forceSyncTabTimes, which does nothing before
\* initTabTimes and catches a rejected write; without a time the handler is
\* done and the locks are free.
ReplaceTimes ==
    LET key == ToStr(rep.removedTabId)
    IN IF Has(memoryTabTimes, key) /\ memoryTabTimes[key] # 0
       THEN LET m == Del(setTabTimeSilent(memoryTabTimes, ToStr(rep.addedTabId),
                                          memoryTabTimes[key]), key)
            IN /\ memoryTabTimes' = m
               /\ IF isInitialized /\ ~storageFails
                  THEN stTabTimes' = m /\ stTabTimesByUrl' = memoryTabTimesByUrl
                  ELSE UNCHANGED <<stTabTimes, stTabTimesByUrl>>
               /\ rep' = [rep EXCEPT !.pc = "sync"]
               /\ UNCHANGED <<lock, lockSettings>>
       ELSE /\ rep' = IdleRep
            /\ lock' = "free"
            /\ lockSettings' = "free"
            /\ UNCHANGED <<memoryTabTimes, stTabTimes, stTabTimesByUrl>>
\* Lines 473-480: the locked ids are known; a locked removed tab is replaced
\* in them and the write of lockedIds is awaited; otherwise lines 481-488.
ReplaceGot ==
    /\ rep.pc = "get"
    /\ IF rep.removedTabId \in Range(settings.lockedIds)
       THEN /\ settings' = [settings EXCEPT
                               !.lockedIds = ReplaceLockedId(@, rep.removedTabId, rep.addedTabId)]
            /\ rep' = [rep EXCEPT !.pc = "set"]
            /\ UNCHANGED <<memoryTabTimes, stTabTimes, stTabTimesByUrl, lock, lockSettings>>
       ELSE /\ ReplaceTimes
            /\ UNCHANGED settings
    /\ UNCHANGED <<now, events, tabs, activeTab, memoryTabTimesByUrl, isInitialized, alarm,
                   startupComplete, cyc, st, cycB, lockLocalStorage, initTabsPc, slot,
                   localStorage, ext>>
\* The write of lockedIds has returned: lines 481-488.
ReplaceSet ==
    /\ rep.pc = "set"
    /\ ReplaceTimes
    /\ UNCHANGED <<now, events, tabs, activeTab, settings, memoryTabTimesByUrl, isInitialized,
                   alarm, startupComplete, cyc, st, cycB, lockLocalStorage, initTabsPc, slot,
                   localStorage, ext>>
\* Mutant: the handler keeps "persist:settings" when it is done.
ReplaceRelease_KeepsSettings ==
    /\ rep.pc = "sync"
    /\ rep' = IdleRep
    /\ lock' = "free"
    /\ UNCHANGED <<now, events, tabs, activeTab, settings, memoryTabTimes, memoryTabTimesByUrl,
                   isInitialized, stTabTimes, stTabTimesByUrl, alarm, startupComplete,
                   cyc, st, cycB, lockSettings, lockLocalStorage, initTabsPc, slot,
                   localStorage, ext>>
\* forceSyncTabTimes has returned: both locks are released.
ReplaceRelease ==
    /\ rep.pc = "sync"
    /\ rep' = IdleRep
    /\ lock' = "free"
    /\ lockSettings' = "free"
    /\ UNCHANGED <<now, events, tabs, activeTab, settings, memoryTabTimes, memoryTabTimesByUrl,
                   isInitialized, stTabTimes, stTabTimesByUrl, alarm, startupComplete,
                   cyc, st, cycB, lockLocalStorage, initTabsPc, slot, localStorage, ext>>

\* The worker starts with two tabs of one window and one url, whose times in
\* storage are older than the cut-off; the alarm of a former run may be pending.
WakeTab == [windowId |-> 1, url |-> UrlA, pinned |-> FALSE, audible |-> FALSE, groupId |-> -1]
InitWake ==
    /\ now = Now0
    /\ events = 0
    /\ tabs = [i \in TabIds |-> IF i <= 2 THEN WakeTab ELSE NoTab]
    /\ activeTab = 1
    /\ settings \in [minTabs : {0}, minTabsStrategy : {"allWindows", "givenWindow"},
                     filterAudio : {FALSE}, filterGroupedTabs : {FALSE},
                     lockedIds : {<<>>, <<2>>},
                     maxTabs : {MaxSaved}, wrangleOption : {"withDuplicates"}]
    /\ memoryTabTimes = EmptyMap
    /\ memoryTabTimesByUrl = EmptyMap
    /\ isInitialized = FALSE
    /\ stTabTimes = [k \in {ToStr(1), ToStr(2)} |-> Now0 - StayOpen - 1]
    /\ stTabTimesByUrl = [u \in {UrlA} |-> Now0 - StayOpen - 1]
    /\ lock = "free"
    /\ alarm \in BOOLEAN
    /\ startupComplete = FALSE
    /\ cyc = IdleCyc
    /\ st = StartupIdle
    /\ MoreIdle
\* The steps of the checkToClose that cyc holds.
CycStep ==
    \/ CheckPaused
    \/ AcquireTabTimes
    \/ CutStep
    \/ SelectStep
    \/ WindowsStep
    \/ ReleaseStep
    \/ WrangleAcquire
    \/ WrangleTabs
    \/ WranglePersisted
    \/ FinallyStep
\* The lock grants to the checkToClose that cycB holds.
CycStepB ==
    \/ AcquireTabTimesB
    \/ WrangleAcquireB
StartupStep ==
    \/ StartupAcquire
    \/ StartupRead
    \/ StartupMigrate
    \/ StartupFinish
ReplaceStep ==
    \/ ReplaceAcquire
    \/ ReplaceGot
    \/ ReplaceSet
    \/ ReplaceRelease
NextWake ==
    \/ AlarmFires
    \/ AlarmFiresAgain
    \/ Switch
    \/ CycStep
    \/ CycStepB
    \/ CycleThrows
    \/ WrangleThrows
    \/ StartupStep
    \/ SettingsChanged
    \/ InitTabsRun
    \/ ReplaceEvent
    \/ ReplaceStep
SpecWake == InitWake /\ [][NextWake]_vars

\* The steps of the checkToClose invocation i: those of cyc when it is there,
\* the lock grants when it is in cycB.
InvStep(i) == (slot = i /\ CycStep) \/ (slot # i /\ CycStepB)

\* The alarm loop alone: startup and the checkToClose invocations, with the
\* strategy that has one await more and no tab locked.
InitTick ==
    /\ InitWake
    /\ settings.lockedIds = <<>>
    /\ settings.minTabsStrategy = "givenWindow"
NextTick ==
    \/ AlarmFires
    \/ AlarmFiresAgain
    \/ Switch
    \/ CycStep
    \/ CycStepB
    \/ CycleThrows
    \/ WrangleThrows
    \/ StartupStep
\* The alarm service delivers a pending alarm; the event loop runs every
\* continuation that is ready; ASYNC_LOCK serves its waiters in order of
\* arrival, so that none waits for ever while the lock is freed again and
\* again.
FairTick ==
    /\ SF_vars(AlarmFires \/ AlarmFiresAgain)
    /\ WF_vars(Switch)
    /\ SF_vars(InvStep(1))
    /\ SF_vars(InvStep(2))
    /\ SF_vars(StartupStep)
SpecTick == InitTick /\ [][NextTick]_vars /\ FairTick

\* The handlers that ask for locks: one checkToClose at a time, startup, the
\* tabs.onReplaced handler and initTabs after a change of the settings; the
\* alarm of a former run is pending and a tab is locked.
InitLocks == InitWake /\ settings.lockedIds # <<>> /\ alarm
NextLocks ==
    \/ AlarmFires
    \/ CycStep
    \/ CycleThrows
    \/ WrangleThrows
    \/ StartupStep
    \/ SettingsChanged
    \/ InitTabsRun
    \/ ReplaceEvent
    \/ ReplaceStep
FairLocks ==
    /\ SF_vars(AlarmFires)
    /\ SF_vars(CycStep)
    /\ SF_vars(StartupStep)
    /\ SF_vars(ReplaceStep)
    /\ SF_vars(InitTabsRun)
SpecLocks == InitLocks /\ [][NextLocks]_vars /\ FairLocks

\* The evaluator run twice in immediate succession: when the first
\* checkToClose has done its work, checkToClose is called once more; no time
\* passes, no setting changes and no tab event happens.  The first invocation
\* stays where it is, with the candidates it returned.
RunAgain ==
    /\ cyc.pc = "finally"
    /\ cycB.pc = "idle"
    /\ slot = 1
    /\ cycB' = [IdleCyc EXCEPT !.pc = "paused"]
    /\ UNCHANGED <<now, events, tabs, activeTab, settings, memoryTabTimes, memoryTabTimesByUrl,
                   isInitialized, stTabTimes, stTabTimesByUrl, lock, alarm, startupComplete, cyc, st,
                   rep, lockSettings, lockLocalStorage, initTabsPc, slot, localStorage, ext>>
NextTwice ==
    \/ AlarmFires
    \/ CheckPaused
    \/ AcquireTabTimes
    \/ CutStep
    \/ SelectStep
    \/ WindowsStep
    \/ ReleaseStep
    \/ WrangleStep
    \/ RunAgain
    \/ Switch
SpecTwice == Init /\ [][NextTwice]_vars

\* ------------------------------------------------ the archive of closed tabs
\* The command "wrangle-current-tab" (lines 502-506): chrome.tabs.query has
\* answered with the active tab and wrangleTabsAndPersist asks for
\* "persist:localStorage" (part_001 lines 93-97).  It takes no lock.
WrangleCurrentTab ==
    /\ man.pc = "idle"
    /\ AfterSnapshot
    /\ events < MaxEvents
    /\ events' = events + 1
    /\ QueryActiveTabs(tabs, activeTab) # {}
    /\ man' = [man EXCEPT !.pc = "get", !.tabs = <<TabRec(tabs, activeTab)>>]
    /\ UNCHANGED <<now, tabs, activeTab, settings, memoryTabTimes, memoryTabTimesByUrl,
                   isInitialized, stTabTimes, stTabTimesByUrl, lock, alarm, startupComplete,
                   cyc, st, cycB, rep, lockSettings, lockLocalStorage, initTabsPc, slot,
                   localStorage, wr, storageFails, schedule, onRemoved, timer>>
\* part_001 lines 97-99: getStorageLocalPersist has returned; wrangleTabs
\* removes the tabs; the write of "persist:localStorage" is awaited.
ManualWrangle ==
    /\ man.pc = "get"
    /\ CloseTabs({t.id : t \in Range(man.tabs)} \cap OpenIds(tabs))
    /\ man' = [man EXCEPT !.pc = "set", !.ls = Persisted(localStorage, man.tabs, settings, now)]
    /\ UNCHANGED <<now, events, memoryTabTimes, memoryTabTimesByUrl, isInitialized,
                   stTabTimes, stTabTimesByUrl, lock, alarm, startupComplete, cyc, st,
                   cycB, rep, lockSettings, lockLocalStorage, initTabsPc, slot,
                   localStorage, wr, storageFails, schedule, onRemoved, timer>>
\* part_001 lines 99-101: the write has returned.
ManualPersisted ==
    /\ man.pc = "set"
    /\ localStorage' = man.ls
    /\ man' = IdleMan
    /\ UNCHANGED <<now, events, tabs, activeTab, settings, memoryTabTimes, memoryTabTimesByUrl,
                   isInitialized, stTabTimes, stTabTimesByUrl, lock, alarm, startupComplete,
                   cyc, st, cycB, rep, lockSettings, lockLocalStorage, initTabsPc, slot,
                   wr, storageFails, schedule, onRemoved, timer>>

\* "persist:localStorage" before any tab was wrangled.
EmptyArchive == [savedTabs |-> <<>>, totalTabsWrangled |-> 0]
\* The extension after startup() with the tabs of one window, the first
\* active, none locked, and an empty archive; chrome.storage.local may
\* reject the writes of the tab times.  The initial states are bounded to
\* tabs that share url and cached time, but for the first.
InitArchive ==
    /\ now = Now0
    /\ events = 0
    /\ tabs \in [TabIds -> {t \in PlainTabs : t.windowId = 1}]
    /\ \A i \in TabIds \ {1} : tabs[i].url = UrlA
    /\ activeTab = 1
    /\ settings \in [minTabs : {0, 1}, minTabsStrategy : {"allWindows", "givenWindow"},
                     filterAudio : {FALSE}, filterGroupedTabs : {FALSE}, lockedIds : {<<>>},
                     maxTabs : 1..MaxSaved, wrangleOption : {"exactURLMatch", "withDuplicates"}]
    /\ memoryTabTimes \in [{ToStr(i) : i \in TabIds} -> Stamps]
    /\ \A i \in TabIds \ {1} : memoryTabTimes[ToStr(i)] = memoryTabTimes[ToStr(MaxTabs)]
    /\ memoryTabTimesByUrl = FillUrlTimes(EmptyMap, memoryTabTimes, QueryAllTabs(tabs))
    /\ isInitialized = TRUE
    /\ stTabTimes = memoryTabTimes
    /\ stTabTimesByUrl = memoryTabTimesByUrl
    /\ lock = "free"
    /\ alarm = TRUE
    /\ startupComplete = TRUE
    /\ cyc = IdleCyc
    /\ st = StartupDone
    /\ cycB = IdleCyc
    /\ rep = IdleRep
    /\ lockSettings = "free"
    /\ lockLocalStorage = "free"
    /\ initTabsPc = "idle"
    /\ slot = 1
    /\ localStorage = EmptyArchive
    /\ wr = Untracked
    /\ man = IdleMan
    /\ storageFails \in BOOLEAN
    /\ schedule = NoSchedule
    /\ onRemoved = "idle"
    /\ timer = 0
NextArchive ==
    \/ AlarmFires
    \/ CheckPaused
    \/ AcquireTabTimes
    \/ CutStep
    \/ SelectStep
    \/ WindowsStep
    \/ ReleaseStep
    \/ WrangleAcquire
    \/ WrangleTabs
    \/ WranglePersisted
    \/ WrangleThrows
    \/ FinallyStep
    \/ Tick
    \/ ToggleLock
    \/ WrangleCurrentTab
    \/ ManualWrangle
    \/ ManualPersisted
SpecArchive == InitArchive /\ [][NextArchive]_vars

\* wrangleTabsAndPersist called alone with any list of open tabs, each tab
\* once: the caller of the popup, or checkToClose with its tabs to close.
\* Every tab has a title; the archive holds tabs closed earlier, newest first.
Titles == {"t", "u"}
WithTitle(ids, titleOf) ==
    [i \in DOMAIN ids |-> [id |-> ids[i], url |-> tabs[ids[i]].url, title |-> titleOf[ids[i]]]]
Batches ==
    {<<i>> : i \in OpenIds(tabs)}
    \cup ({<<i, j>> : i, j \in OpenIds(tabs)} \ {<<i, i>> : i \in OpenIds(tabs)})
WrangleTabsAndPersist ==
    /\ events < MaxEvents
    /\ events' = events + 1
    /\ \E ids \in Batches, titleOf \in [TabIds -> Titles] :
         /\ man' = [man EXCEPT !.tabs = WithTitle(ids, titleOf)]
         /\ localStorage' = Persisted(localStorage, WithTitle(ids, titleOf), settings, now)
         /\ CloseTabs(Range(ids))
    /\ UNCHANGED <<now, memoryTabTimes, memoryTabTimesByUrl, isInitialized, stTabTimes,
                   stTabTimesByUrl, lock, alarm, startupComplete, cyc, st, cycB, rep,
                   lockSettings, lockLocalStorage, initTabsPc, slot, wr, storageFails, schedule, onRemoved, timer>>
\* The tabs closed earlier: not open any more, closed at the latest now.
ClosedEarlier ==
    {Closed(t, d) : t \in [id : {MaxTabs + 1}, url : Urls, title : Titles],
                    d \in (Now0 - 1)..Now0}
NewestFirst(savedTabs) ==
    \A i, j \in DOMAIN savedTabs : i < j => savedTabs[i].closedAt >= savedTabs[j].closedAt
Archives ==
    {s \in UNION {[1..n -> ClosedEarlier] : n \in 0..MaxSaved} : NewestFirst(s)}
InitWrangle ==
    /\ now \in Now0..MaxTime
    /\ events = 0
    /\ tabs = [i \in TabIds |-> [windowId |-> 1, url |-> IF i = 1 THEN UrlW ELSE UrlA,
                                 pinned |-> FALSE, audible |-> FALSE, groupId |-> -1]]
    /\ activeTab = 1
    /\ settings \in [minTabs : {0}, minTabsStrategy : {"allWindows"},
                     filterAudio : {FALSE}, filterGroupedTabs : {FALSE}, lockedIds : {<<>>},
                     maxTabs : 0..MaxSaved,
                     wrangleOption : {"exactURLMatch", "hostnameAndTitleMatch", "withDuplicates"}]
    /\ memoryTabTimes = [k \in {ToStr(i) : i \in TabIds} |-> Now0]
    /\ memoryTabTimesByUrl = FillUrlTimes(EmptyMap, memoryTabTimes, QueryAllTabs(tabs))
    /\ isInitialized = TRUE
    /\ stTabTimes = memoryTabTimes
    /\ stTabTimesByUrl = memoryTabTimesByUrl
    /\ lock = "free"
    /\ alarm = TRUE
    /\ startupComplete = TRUE
    /\ cyc = IdleCyc
    /\ st = StartupDone
    /\ cycB = IdleCyc
    /\ rep = IdleRep
    /\ lockSettings = "free"
    /\ lockLocalStorage = "free"
    /\ initTabsPc = "idle"
    /\ slot = 1
    /\ localStorage \in [savedTabs : Archives, totalTabsWrangled : {MaxSaved}]
    /\ wr = Untracked
    /\ man = IdleMan
    /\ storageFails = FALSE
    /\ schedule = NoSchedule
    /\ onRemoved = "idle"
    /\ timer = 0
NextWrangle == WrangleTabsAndPersist
SpecWrangle == InitWrangle /\ [][NextWrangle]_vars

\* ------------------------------------------------------ the last window
\* The user closes a window: the browser removes its tabs and fires
\* windows.onRemoved; the handler awaits chrome.windows.getAll (line 843).
WindowRemoved ==
    /\ onRemoved = "idle"
    /\ events < MaxEvents
    /\ events' = events + 1
    /\ \E w \in {tabs[i].windowId : i \in OpenIds(tabs)} :
         CloseTabs({i \in OpenIds(tabs) : tabs[i].windowId = w})
    /\ onRemoved' = "getAll"
    /\ UNCHANGED <<now, memoryTabTimes, memoryTabTimesByUrl, isInitialized, stTabTimes,
                   stTabTimesByUrl, lock, alarm, startupComplete, cyc, st, cycB, rep,
                   lockSettings, lockLocalStorage, initTabsPc, slot, localStorage, wr, man,
                   storageFails, schedule, timer>>
\* Mutant: the handler forces the sync whatever chrome.windows.getAll returns.
OnRemovedGot_AlwaysSyncs ==
    /\ onRemoved = "getAll"
    /\ onRemoved' = "sync"
    /\ IF isInitialized /\ ~storageFails
       THEN stTabTimes' = memoryTabTimes /\ stTabTimesByUrl' = memoryTabTimesByUrl
       ELSE UNCHANGED <<stTabTimes, stTabTimesByUrl>>
    /\ UNCHANGED <<now, events, tabs, activeTab, settings, memoryTabTimes, memoryTabTimesByUrl,
                   isInitialized, lock, alarm, startupComplete, cyc, st, cycB, rep,
                   lockSettings, lockLocalStorage, initTabsPc, slot, localStorage, wr, man,
                   storageFails, schedule, timer>>
\* Lines 843-850: chrome.windows.getAll has returned.  With no window left
\* forceSyncTabTimes is called: it returns at once before initTabTimes, and
\* otherwise writes both maps and catches a rejected write.
OnRemovedGot ==
    /\ onRemoved = "getAll"
    /\ IF Len(WindowsGetAll(tabs, activeTab)) = 0
       THEN /\ onRemoved' = "sync"
            /\ IF isInitialized /\ ~storageFails
               THEN stTabTimes' = memoryTabTimes /\ stTabTimesByUrl' = memoryTabTimesByUrl
               ELSE UNCHANGED <<stTabTimes, stTabTimesByUrl>>
       ELSE /\ onRemoved' = "idle"
            /\ UNCHANGED <<stTabTimes, stTabTimesByUrl>>
    /\ UNCHANGED <<now, events, tabs, activeTab, settings, memoryTabTimes, memoryTabTimesByUrl,
                   isInitialized, lock, alarm, startupComplete, cyc, st, cycB, rep,
                   lockSettings, lockLocalStorage, initTabsPc, slot, localStorage, wr, man,
                   storageFails, schedule, timer>>
\* Line 849: forceSyncTabTimes has returned and the handler completes.
OnRemovedDone ==
    /\ onRemoved = "sync"
    /\ onRemoved' = "idle"
    /\ UNCHANGED <<now, events, tabs, activeTab, settings, memoryTabTimes, memoryTabTimesByUrl,
                   isInitialized, stTabTimes, stTabTimesByUrl, lock, alarm, startupComplete,
                   cyc, st, cycB, rep, lockSettings, lockLocalStorage, initTabsPc, slot,
                   localStorage, wr, man, storageFails, schedule, timer>>

\* The worker starts with two tabs in one or two windows, the second audible,
\* whose times in storage are older than the cut-off; the alarm of a former run may be
\* pending, and chrome.storage.local may reject the writes of the tab times.
InitShutdown ==
    /\ now = Now0
    /\ events = 0
    /\ tabs \in {[i \in TabIds |-> IF i = 1 THEN WakeTab
                                  ELSE IF i = 2
                                       THEN [WakeTab EXCEPT !.windowId = w, !.audible = TRUE]
                                       ELSE NoTab] : w \in Windows}
    /\ activeTab = 1
    /\ settings \in [minTabs : {0}, minTabsStrategy : {"allWindows", "givenWindow"},
                     filterAudio : BOOLEAN, filterGroupedTabs : {FALSE}, lockedIds : {<<>>},
                     maxTabs : {MaxSaved}, wrangleOption : {"withDuplicates"}]
    /\ memoryTabTimes = EmptyMap
    /\ memoryTabTimesByUrl = EmptyMap
    /\ isInitialized = FALSE
    /\ stTabTimes = [k \in {ToStr(1), ToStr(2)} |-> Now0 - StayOpen - 1]
    /\ stTabTimesByUrl = [u \in {UrlA} |-> Now0 - StayOpen - 1]
    /\ lock = "free"
    /\ alarm \in BOOLEAN
    /\ startupComplete = FALSE
    /\ cyc = IdleCyc
    /\ st = StartupIdle
    /\ cycB = IdleCyc
    /\ rep = IdleRep
    /\ lockSettings = "free"
    /\ lockLocalStorage = "free"
    /\ initTabsPc = "idle"
    /\ slot = 1
    /\ localStorage = Untracked
    /\ wr = Untracked
    /\ man = IdleMan
    /\ storageFails \in BOOLEAN
    /\ schedule = NoSchedule
    /\ onRemoved = "idle"
    /\ timer = 0
NextShutdown ==
    \/ AlarmFires
    \/ CycStep
    \/ StartupStep
    \/ WindowRemoved
    \/ OnRemovedGot
    \/ OnRemovedDone
SpecShutdown == InitShutdown /\ [][NextShutdown]_vars

\* ------------------------------------------------- scheduleCheckToClose
\* Mutant: the interval has no lower limit.
intervalMs_NoFloor(stayOpenTime) == Min(20 * 10800000, stayOpenTime)
\* Math.max(30000, Math.min(10800000, stayOpenTime / 20)), counted in
\* twentieths of a millisecond so that stayOpenTime / 20 is exact.
intervalMs(stayOpenTime) == Max(20 * 30000, Min(20 * 10800000, stayOpenTime))
\* The stayOpen settings of the model, in milliseconds: around zero and
\* around the two limits of the interval.
Spread == 30
StayOpenTimes ==
    (-Spread..Spread)
    \cup ((20 * 30000 - Spread)..(20 * 30000 + Spread))
    \cup ((20 * 10800000 - Spread)..(20 * 10800000 + Spread))
\* scheduleCheckToClose (lines 561-572) with any stayOpen setting: the alarm
\* "checkToClose" is created, or replaced, with the delay of the interval.
ScheduleCheckToClose ==
    /\ \E stayOpenTime \in StayOpenTimes :
         schedule' = [stayOpenTime |-> stayOpenTime, intervalMs |-> intervalMs(stayOpenTime)]
    /\ alarm' = TRUE
    /\ UNCHANGED <<now, events, tabs, activeTab, settings, memoryTabTimes, memoryTabTimesByUrl,
                   isInitialized, stTabTimes, stTabTimesByUrl, lock, startupComplete, cyc, st,
                   cycB, rep, lockSettings, lockLocalStorage, initTabsPc, slot, localStorage,
                   wr, man, storageFails, onRemoved, timer>>
InitSchedule ==
    /\ InitWake
    /\ ~alarm
    /\ settings.lockedIds = <<>>
    /\ settings.minTabsStrategy = "givenWindow"
NextSchedule == ScheduleCheckToClose
SpecSchedule == InitSchedule /\ [][NextSchedule]_vars

\* ---------------------------------------------------- tabTimesCache alone
\* The cache module called by any caller, from the moment the worker has
\* loaded it: every exported function, in any order, MaxCalls calls in all.
\* events counts the calls.
MaxCalls == 4
CacheIds == 1..2
CacheTimes == 1..2
removeTabTime(m, tabId) == Del(m, tabId)
\* Mutant: before initialisation the caller gets an empty object.
getTabTimes_EmptyBeforeInit(m) == IF isInitialized THEN m ELSE EmptyMap
\* getTabTimes returns the object the module holds; the warning changes nothing.
getTabTimes(m) == m
CacheFrame ==
    UNCHANGED <<now, tabs, activeTab, settings, lock, alarm, startupComplete, cyc, st, more>>
Called ==
    /\ events < MaxCalls
    /\ events' = events + 1
SetTabTimeCall(tabId, time) ==
    /\ Called
    /\ memoryTabTimes' = setTabTime(memoryTabTimes, ToStr(tabId), time)
    /\ UNCHANGED <<memoryTabTimesByUrl, isInitialized, stTabTimes, stTabTimesByUrl>>
    /\ CacheFrame
SetTabTimesCall(tabIds, time) ==
    /\ Called
    /\ memoryTabTimes' = setTabTimes(memoryTabTimes, tabIds, time)
    /\ UNCHANGED <<memoryTabTimesByUrl, isInitialized, stTabTimes, stTabTimesByUrl>>
    /\ CacheFrame
SetTabTimeSilentCall(tabId, time) ==
    /\ Called
    /\ memoryTabTimes' = setTabTimeSilent(memoryTabTimes, ToStr(tabId), time)
    /\ UNCHANGED <<memoryTabTimesByUrl, isInitialized, stTabTimes, stTabTimesByUrl>>
    /\ CacheFrame
SetTabTimeByUrlSilentCall(url, time) ==
    /\ Called
    /\ memoryTabTimesByUrl' = setTabTimeByUrlSilent(memoryTabTimesByUrl, url, time)
    /\ UNCHANGED <<memoryTabTimes, isInitialized, stTabTimes, stTabTimesByUrl>>
    /\ CacheFrame
RemoveTabTimeCall(tabId) ==
    /\ Called
    /\ memoryTabTimes' = removeTabTime(memoryTabTimes, ToStr(tabId))
    /\ UNCHANGED <<memoryTabTimesByUrl, isInitialized, stTabTimes, stTabTimesByUrl>>
    /\ CacheFrame
\* initTabTimes(initialData, initialUrlData?): copies of what storage holds,
\* the url map being optional.
InitTabTimesCall(withUrlData) ==
    /\ Called
    /\ memoryTabTimes' = stTabTimes
    /\ memoryTabTimesByUrl' = IF withUrlData THEN stTabTimesByUrl ELSE memoryTabTimesByUrl
    /\ isInitialized' = TRUE
    /\ UNCHANGED <<stTabTimes, stTabTimesByUrl>>
    /\ CacheFrame
\* Mutant: the write holds the id map only.
ForceSyncCall_OnlyIds ==
    /\ Called
    /\ IF ~isInitialized
       THEN UNCHANGED <<stTabTimes, stTabTimesByUrl>>
       ELSE stTabTimes' = memoryTabTimes /\ UNCHANGED stTabTimesByUrl
    /\ UNCHANGED <<memoryTabTimes, memoryTabTimesByUrl, isInitialized>>
    /\ CacheFrame
\* forceSyncTabTimes: returns at once before initialisation; else one
\* chrome.storage.local.set of both maps, here accepted.
ForceSyncCall ==
    /\ Called
    /\ IF ~isInitialized
       THEN UNCHANGED <<stTabTimes, stTabTimesByUrl>>
       ELSE stTabTimes' = memoryTabTimes /\ stTabTimesByUrl' = memoryTabTimesByUrl
    /\ UNCHANGED <<memoryTabTimes, memoryTabTimesByUrl, isInitialized>>
    /\ CacheFrame
InitCache ==
    /\ now = Now0
    /\ events = 0
    /\ tabs = [i \in TabIds |-> NoTab]
    /\ activeTab = 0
    /\ settings = [minTabs |-> 0, minTabsStrategy |-> "allWindows", filterAudio |-> FALSE,
                   filterGroupedTabs |-> FALSE, lockedIds |-> <<>>,
                   maxTabs |-> MaxSaved, wrangleOption |-> "withDuplicates"]
    /\ memoryTabTimes = EmptyMap
    /\ memoryTabTimesByUrl = EmptyMap
    /\ isInitialized = FALSE
    /\ \E ids \in SUBSET CacheIds : stTabTimes = [k \in {ToStr(i) : i \in ids} |-> 1]
    /\ \E us \in SUBSET {UrlA} : stTabTimesByUrl = [u \in us |-> 1]
    /\ lock = "free"
    /\ alarm = FALSE
    /\ startupComplete = FALSE
    /\ cyc = IdleCyc
    /\ st = StartupIdle
    /\ MoreIdle
NextCache ==
    \/ \E tabId \in CacheIds, time \in CacheTimes : SetTabTimeCall(tabId, time)
    \/ \E time \in CacheTimes : SetTabTimesCall(<<ToStr(1), ToStr(2)>>, time)
    \/ \E tabId \in CacheIds, time \in CacheTimes : SetTabTimeSilentCall(tabId, time)
    \/ \E time \in CacheTimes : SetTabTimeByUrlSilentCall(UrlA, time)
    \/ \E tabId \in CacheIds : RemoveTabTimeCall(tabId)
    \/ \E withUrlData \in BOOLEAN : InitTabTimesCall(withUrlData)
    \/ ForceSyncCall
SpecCache == InitCache /\ [][NextCache]_vars

\* ------------------------------------------------------------------ claims
\* The running cycle has selected its candidates (cyc.candidateTabs).
Selected == cyc.pc \in {"sync", "wrangle", "finally"} /\ cyc.strategy # ""
Cands == Range(cyc.candidateTabs)
\* The groups the cycle evaluated: all tabs of the snapshot, or one group per
\* window that chrome.windows.getAll returned.
Groups ==
    IF cyc.strategy = "allWindows" THEN {Range(cyc.allTabs)}
    ELSE {{t \in Range(cyc.allTabs) : t.windowId = w.id} : w \in Range(cyc.windows)}
\* The tabs of a group that pass the should-be-closed filter of the cycle.
Passing(g) == {t \in g : shouldTabBeClosed(cyc.filter, t)}
\* The cached time of a tab when the critical section read the cache.
HadTime(t) == Has(cyc.tabTimes0, ToStr(t.id))
Time0(t) == cyc.tabTimes0[ToStr(t.id)]
\* The tabs of a group that pass the filter and were older than the cut-off.
OldPassing(g) == {t \in Passing(g) : HadTime(t) /\ Time0(t) < cyc.cutOff}
NumCandsIn(g) == Cardinality({k \in DOMAIN cyc.candidateTabs : cyc.candidateTabs[k] \in g})

\* C1: in every cycle, each evaluated group contributes at most
\* max(0, n - minTabs) candidates, n being the number of its tabs that pass
\* the should-be-closed filter.
C1_FloorKept ==
    Selected =>
        \A g \in Groups : NumCandsIn(g) <= Max(0, Cardinality(Passing(g)) - cyc.minTabs)
\* The floor binds: more old tabs than the group may lose, and it loses exactly
\* as many as it may.
C1_Witness ==
    /\ Selected
    /\ \E g \in Groups :
         /\ Cardinality(Passing(g)) - cyc.minTabs >= 1
         /\ Cardinality(OldPassing(g)) > Cardinality(Passing(g)) - cyc.minTabs
         /\ NumCandsIn(g) = Cardinality(Passing(g)) - cyc.minTabs
         /\ cyc.minTabs >= 1

\* C2: with a non-zero cut-off, no tab whose cached time at the start of the
\* critical section is >= the cut-off is a candidate.
C2_FreshNeverCandidate ==
    (Selected /\ cyc.cutOff # 0) =>
        \A t \in Cands : ~(HadTime(t) /\ Time0(t) >= cyc.cutOff)
\* Some tab is a candidate while a tab of its group that passes the filter,
\* with a time equal to the cut-off, is not.
C2_Witness ==
    /\ Selected
    /\ cyc.cutOff # 0
    /\ cyc.minTabs = 0
    /\ \E g \in Groups : \E t, u \in Passing(g) :
         /\ t \in Cands
         /\ u \notin Cands /\ HadTime(u) /\ Time0(u) = cyc.cutOff

\* C3 as claimed: with a zero cut-off the policy is disabled: toCut is empty
\* and the cycle returns no candidate.
C3_ZeroCutoffDisabled ==
    (Selected /\ cyc.cutOff = 0) => (cyc.toCut = {} /\ cyc.candidateTabs = <<>>)
\* C3 as amended: with a zero cut-off toCut holds the id of every cached tab,
\* whatever its time, and with minTabs 0 every tab with a cached time that
\* passes the filter and is not locked is a candidate.
C3_ZeroCutoffCutsAll ==
    (Selected /\ cyc.cutOff = 0) =>
        /\ cyc.toCut = {ParseInt(k) : k \in DOMAIN cyc.tabTimes0}
        /\ cyc.minTabs = 0 =>
              \A g \in Groups :
                  Cands \cap g = {t \in Passing(g) : HadTime(t) /\ t.id \notin cyc.lockedIds}
\* A cycle with a zero cut-off returns a tab whose cached time is the newest
\* the cache holds.
C3_Witness ==
    /\ Selected
    /\ cyc.cutOff = 0
    /\ \E t \in Cands : HadTime(t) /\ \A k \in DOMAIN cyc.tabTimes0 : cyc.tabTimes0[k] <= Time0(t)

\* C4: no tab whose id is in the lockedIds the cycle reads, at the start of
\* its critical section or when it builds its filter, is a candidate.
C4_LockedNeverCandidate ==
    Selected => \A t \in Cands : t.id \notin cyc.filter.lockedIds /\ t.id \notin cyc.lockedIds
\* A locked tab older than the cut-off in a cycle with minTabs 0 that returns
\* another tab of the same group.
C4_Witness ==
    /\ Selected
    /\ cyc.minTabs = 0
    /\ \E g \in Groups : \E t, u \in g :
         /\ t \in Cands
         /\ u.id \in cyc.filter.lockedIds /\ HadTime(u) /\ Time0(u) < cyc.cutOff

\* C8: no tab that is pinned, whose url contains a whitelist entry, that is
\* grouped while filterGroupedTabs is on, or audible while filterAudio is on,
\* is a candidate.
HasWhitelistEntry(url) == \E k \in DOMAIN Whitelist : Contains(url, Whitelist[k])
Exempted(t) ==
    \/ t.pinned
    \/ HasWhitelistEntry(t.url)
    \/ (t.groupId > 0 /\ cyc.filter.filterGroupedTabs)
    \/ (t.audible /\ cyc.filter.filterAudio)
C8_ExemptNeverCandidate ==
    Selected => \A t \in Cands : ~Exempted(t)
\* An exempted tab older than the cut-off, in a cycle with minTabs 0 that
\* returns another tab of its group.
C8_Witness ==
    /\ Selected
    /\ cyc.minTabs = 0
    /\ \E g \in Groups : \E t, u \in g :
         /\ t \in Cands
         /\ Exempted(u) /\ HadTime(u) /\ Time0(u) < cyc.cutOff

\* The group of the snapshot a tab was evaluated in, as a sequence, with the
\* resetIfNoCandidates it was evaluated with.
GroupSeqs ==
    IF cyc.strategy = "allWindows" THEN {[tabs |-> cyc.allTabs, reset |-> FALSE]}
    ELSE {[tabs |-> TabsOfWindow(cyc.allTabs, w.id), reset |-> w.focused] : w \in Range(cyc.windows)}
\* The tab would be cut from its group if its id were not locked.
WouldBeCut(t) ==
    \E g \in GroupSeqs :
        /\ t \in Range(g.tabs)
        /\ LET c2 == [cyc EXCEPT !.filter.lockedIds = @ \ {t.id}, !.lockedIds = @ \ {t.id}]
           IN t \in Range(findTabsToCloseCandidates(g.tabs, g.reset, c2).cands)

\* C5: a tab with an id locked all through the cycle, older than the cut-off, that would be among
\* the tabs cut from its group were it not locked, gets the cycle's update
\* time and keeps its cache entry.
C5_LockedRefreshed ==
    Selected =>
        \A t \in Range(cyc.allTabs) :
            (t.id \in cyc.lockedIds /\ t.id \in cyc.filter.lockedIds /\ HadTime(t) /\ Time0(t) < cyc.cutOff /\ WouldBeCut(t))
            => (Has(memoryTabTimes, ToStr(t.id)) /\ memoryTabTimes[ToStr(t.id)] = cyc.updatedAt)

\* The position of a tab in the snapshot (the enumeration order).
Pos(t) == CHOOSE k \in DOMAIN cyc.allTabs : cyc.allTabs[k] = t
\* The tabs of a group that may be closed: they pass the filter, were older
\* than the cut-off, and their id was in no lockedIds the cycle read.
Eligible(g) == {t \in OldPassing(g) : t.id \notin cyc.lockedIds}

\* C6: when the floor binds, no tab is a candidate while an eligible tab of its group
\* with a strictly older time is left out.
C6_OldestFirst ==
    Selected =>
        \A g \in Groups : \A t \in Cands \cap g : \A u \in Eligible(g) \ Cands :
            ~(Time0(u) < Time0(t))
\* The floor binds and an eligible tab older than a candidate is left out.
C6_Witness ==
    /\ Selected
    /\ \E g \in Groups : \E t \in Cands \cap g : \E u \in Eligible(g) \ Cands :
         Time0(u) < Time0(t)

\* The floor does not bind: the group may lose as many tabs as are old.
FloorNotBinding(g) == Cardinality(Passing(g)) - cyc.minTabs >= Cardinality(OldPassing(g))
Owed(t) ==
    IF Has(st.tabTimes, ToStr(t.id)) THEN st.tabTimes[ToStr(t.id)]
    ELSE IF Has(st.tabTimesByUrl, t.url) THEN st.tabTimesByUrl[t.url]
    ELSE st.now
Inv(i) == IF slot = i THEN cyc ELSE cycB
Running(i) == Inv(i).pc # "idle"
NumRunning == Cardinality({i \in {1, 2} : Running(i)})
\* A checkToClose has just been started by the alarm.
Fired == cyc.pc = "paused" \/ cycB.pc = "paused"

\* C11: once startup is complete there is always a checkToClose in progress
\* or a pending alarm; a checkToClose ends only with the alarm scheduled,
\* however it went (paused, error, normal); every checkToClose ends; and
\* the alarm fires again and again.
C11_AlwaysRescheduled ==
    /\ [](startupComplete => (alarm \/ NumRunning > 0))
    /\ [][NumRunning' < NumRunning => alarm']_vars
    /\ \A i \in {1, 2} : Running(i) ~> ~Running(i)
    /\ []<>Fired
\* A checkToClose that ran before startup has ended with the alarm scheduled.
C11_Witness ==
    /\ ~startupComplete
    /\ st.pc = "init"
    /\ events = 0
    /\ memoryTabTimes # EmptyMap
    /\ NumRunning = 0
    /\ alarm

\* C12: at most one checkToClose is in progress.
C12_OneCycleAtATime == NumRunning <= 1

\* The handlers inside their critical section on "local.tabTimes".
CycInCS(c) == c.pc \in {"query", "active", "windows", "sync"}
StartupInCS == st.pc \in {"read", "query", "sync"}
ReplaceInCS == rep.pc \in {"get", "set", "sync"}
NumInCS ==
    Cardinality({i \in {1, 2} : CycInCS(Inv(i))})
    + (IF StartupInCS THEN 1 ELSE 0) + (IF ReplaceInCS THEN 1 ELSE 0)
Maps == <<memoryTabTimes, memoryTabTimesByUrl, stTabTimes, stTabTimesByUrl>>
\* C13: at most one of the critical sections of checkToClose, startup and
\* the tabs.onReplaced handler is running, and while one is running a step
\* that changes the maps is a step of it.
C13_OneCriticalSection ==
    /\ [](NumInCS <= 1)
    /\ [][(Maps' # Maps) =>
            /\ CycInCS(cyc) => (cyc' # cyc /\ slot' = slot)
            /\ CycInCS(cycB) => FALSE
            /\ StartupInCS => st' # st
            /\ ReplaceInCS => rep' # rep]_vars
\* Startup is in its critical section while a checkToClose and a
\* tabs.onReplaced handler wait for the lock.
C13_Witness ==
    /\ StartupInCS
    /\ cyc.pc = "waitLock"
    /\ rep.pc = "waitLock"

\* The locks the checkToClose of cyc holds.
CycHolds ==
    (IF lock = "checkToClose" THEN {"local.tabTimes"} ELSE {})
    \cup (IF lockLocalStorage = "checkToClose" THEN {"persist:localStorage"} ELSE {})
\* C14: the tabs.onReplaced handler holds both its locks or none; a handler
\* that waits for a lock holds none; and every request is granted in the end:
\* of checkToClose for "local.tabTimes" and for "persist:localStorage", of
\* startup, and of the tabs.onReplaced handler.
C14_NoDeadlock ==
    /\ []((lock = "replaceTab") <=> (lockSettings = "replaceTab"))
    /\ [](cyc.pc \in {"waitLock", "wrangle"} => CycHolds = {})
    /\ [](rep.pc = "waitLock" => lock # "replaceTab" /\ lockSettings # "replaceTab")
    /\ [](st.pc = "init" => lock # "startup")
    /\ (cyc.pc = "waitLock") ~> (cyc.pc = "query")
    /\ (cyc.pc = "wrangle") ~> (cyc.pc = "wrangleGet")
    /\ (st.pc = "init") ~> (st.pc = "read")
    /\ (rep.pc = "waitLock") ~> (rep.pc = "get")
\* Startup and the tabs.onReplaced handler both wait while checkToClose
\* holds "local.tabTimes".
C14_Witness ==
    /\ CycInCS(cyc)
    /\ lock = "checkToClose"
    /\ st.pc = "init"
    /\ rep.pc = "waitLock"
    /\ lockSettings = "free"

\* The invocation c has selected its candidates.
SelectedIn(c) == c.pc \in {"sync", "wrangle", "finally"} /\ c.strategy # ""
TimesOfUrl(u) ==
    {memoryTabTimes[ToStr(t.id)] :
        t \in {x \in Range(cyc.allTabs) : x.url = u /\ Has(memoryTabTimes, ToStr(x.id))}}
\* C16: when the cycle has refilled and written the maps, the url of two
\* live tabs with different times has the older of the times, in memory and
\* in storage.
C16_OldestPerUrl ==
    (cyc.pc = "sync" /\ cyc.strategy # "") =>
        \A u \in AliveUrls(cyc.allTabs) :
            Cardinality(TimesOfUrl(u)) > 1 =>
                /\ Has(memoryTabTimesByUrl, u)
                /\ \A T \in TimesOfUrl(u) : memoryTabTimesByUrl[u] <= T
                /\ Has(stTabTimesByUrl, u)
                /\ \A T \in TimesOfUrl(u) : stTabTimesByUrl[u] <= T

\* The step that ends the critical section of a checkToClose: the maps have
\* been refilled and forceSyncTabTimes has returned.
EndsCriticalSection ==
    /\ cyc.pc \in {"active", "windows"}
    /\ cyc'.pc = "sync"
    /\ slot' = slot
SnapshotIds(c) == {ToStr(t.id) : t \in Range(c.allTabs)}
\* C17: when a checkToClose that was not paused ends its critical section,
\* the keys of the id map, in memory and in storage, are the ids of the
\* snapshot's tabs, and each has the time it had, or the update time if the
\* cycle refreshed it or it had none (in storage: the time it had there, or
\* the time the cache has).
C17_IdMapIsSnapshot ==
    [][EndsCriticalSection =>
        /\ DOMAIN memoryTabTimes' = SnapshotIds(cyc')
        /\ DOMAIN stTabTimes' = SnapshotIds(cyc')
        /\ \A k \in SnapshotIds(cyc') :
              /\ memoryTabTimes'[k] \in
                    (IF Has(memoryTabTimes, k) THEN {memoryTabTimes[k], cyc'.updatedAt}
                     ELSE {cyc'.updatedAt})
              /\ stTabTimes'[k] \in
                    (IF Has(stTabTimes, k) THEN {stTabTimes[k], memoryTabTimes'[k]}
                     ELSE {memoryTabTimes'[k]})]_vars

\* The keys of the url map, in memory and in storage, are urls of allTabs.
UrlKeysLive(allTabs) ==
    /\ DOMAIN memoryTabTimesByUrl \subseteq AliveUrls(allTabs)
    /\ DOMAIN stTabTimesByUrl \subseteq AliveUrls(allTabs)
\* C18: when the startup migration has written the maps, and when a
\* checkToClose has, every key of the url map is the url of a tab of the
\* snapshot that step took.
C18_UrlMapPruned ==
    /\ st.pc = "sync" => UrlKeysLive(st.allTabs)
    /\ (cyc.pc = "sync" /\ cyc.strategy # "") => UrlKeysLive(cyc.allTabs)

\* In storage is what the cache holds.
StorageIsMemory == stTabTimes = memoryTabTimes /\ stTabTimesByUrl = memoryTabTimesByUrl
\* C19: every call of forceSyncTabTimes, initialised or not, leaves in
\* storage the two maps of the cache, and a call made when storage already
\* holds them changes nothing there.
C19_AlwaysWrites ==
    [][ForceSyncCall =>
        /\ StorageIsMemory'
        /\ StorageIsMemory => UNCHANGED <<stTabTimes, stTabTimesByUrl>>]_vars
\* C19 as the code has it: once initTabTimes has run, a call leaves in
\* storage the two maps of the cache; before, it writes nothing; and a call
\* made when storage already holds the maps changes nothing there.
C19_WritesOnceInitialized ==
    [][ForceSyncCall =>
        /\ isInitialized => StorageIsMemory'
        /\ ~isInitialized => UNCHANGED <<stTabTimes, stTabTimesByUrl>>
        /\ StorageIsMemory => UNCHANGED <<stTabTimes, stTabTimesByUrl>>]_vars
\* forceSyncTabTimes has been called on an initialised cache whose two maps
\* both differed from storage.
C19_Witness ==
    /\ isInitialized
    /\ events = MaxCalls
    /\ StorageIsMemory
    /\ memoryTabTimes = [k \in {ToStr(2)} |-> 2]
    /\ memoryTabTimesByUrl = [u \in {UrlA} |-> 2]

\* C20: before initTabTimes, getTabTimes returns an empty map.
C20_EmptyBeforeInit == ~isInitialized => getTabTimes(memoryTabTimes) = EmptyMap
\* C20 as the code has it: before initTabTimes, getTabTimes returns what the
\* calls made so far have left: a time that was set is in the map returned,
\* a time that was removed is not, and with no call made the map is empty.
C20_ReturnsWhatWasSet ==
    /\ [](events = 0 => getTabTimes(memoryTabTimes) = EmptyMap)
    /\ [][~isInitialized =>
            \A tabId \in CacheIds :
                /\ \A time \in CacheTimes :
                      (\/ SetTabTimeCall(tabId, time)
                       \/ SetTabTimeSilentCall(tabId, time)
                       \/ SetTabTimesCall(<<ToStr(1), ToStr(2)>>, time))
                      => /\ Has(getTabTimes(memoryTabTimes'), ToStr(tabId))
                         /\ getTabTimes(memoryTabTimes')[ToStr(tabId)] = time
                /\ RemoveTabTimeCall(tabId) => ~Has(getTabTimes(memoryTabTimes'), ToStr(tabId))]_vars
\* Before initTabTimes, one time was set and another set and removed.
C20_Witness ==
    /\ ~isInitialized
    /\ events = 3
    /\ memoryTabTimes = [k \in {ToStr(1)} |-> 2]

\* C21: a cycle whose write of the tab times is rejected aborts: no step of
\* that cycle removes a tab or changes the archive.
C21_RejectedWriteAborts ==
    [][(storageFails /\ cyc' # cyc) => (tabs' = tabs /\ localStorage' = localStorage)]_vars

\* The archive as the loop of wrangleTabs leaves it, before it is trimmed.
Untrimmed == WrangleLoop(localStorage, man'.tabs, settings.wrangleOption, now).savedTabs
\* C22: after a wrangle call with a non-empty tab list and maxTabs = N the
\* archive has at most N entries: of the N + k entries it would hold, the N
\* closed most recently remain, newest first, and the k at the tail are dropped.
C22_ArchiveTrimmed ==
    [][(events' = events + 1 /\ man'.tabs # <<>>) =>
         LET N == settings.maxTabs
             new == localStorage'.savedTabs
         IN /\ Len(new) = Min(N, Len(Untrimmed))
            /\ new = SubSeq(Untrimmed, 1, Len(new))
            /\ NewestFirst(new)
            /\ \A i \in DOMAIN new, j \in (Len(new) + 1)..Len(Untrimmed) :
                  new[i].closedAt >= Untrimmed[j].closedAt
            /\ settings.wrangleOption = "withDuplicates" =>
                  \A i \in 1..Min(Len(new), Len(man'.tabs)) :
                    new[i].id = man'.tabs[Len(man'.tabs) + 1 - i].id]_vars
\* Reached: two tabs were wrangled into a full archive with maxTabs = 1; the
\* tab closed last is the one entry left.
C22_Witness ==
    /\ events = 1
    /\ settings.maxTabs = 1
    /\ Len(man.tabs) = 2
    /\ localStorage.totalTabsWrangled = MaxSaved + 2
    /\ Len(localStorage.savedTabs) = 1
    /\ localStorage.savedTabs[1].id = man.tabs[2].id

\* The ids of the tabs of an archive.
SavedIds(ls) == {ls.savedTabs[i].id : i \in DOMAIN ls.savedTabs}
\* C23: totalTabsWrangled never decreases, and no write of the archive by
\* the wrangle step of checkToClose or by the command "wrangle-current-tab"
\* loses the tabs of an earlier write: while the archive is below maxTabs
\* and keeps duplicates, every tab it held is still in it.
C23_CounterNeverDecreases ==
    [][/\ localStorage'.totalTabsWrangled >= localStorage.totalTabsWrangled
       /\ (settings.wrangleOption = "withDuplicates"
            /\ Len(localStorage'.savedTabs) < settings.maxTabs)
           => SavedIds(localStorage) \subseteq SavedIds(localStorage')]_vars

\* No two entries of an archive share a url.
NoSharedUrl(savedTabs) ==
    \A i, j \in DOMAIN savedTabs : savedTabs[i].url = savedTabs[j].url => i = j
\* The last tab of a list with the url u.
LastWithUrl(batch, u) ==
    batch[CHOOSE i \in DOMAIN batch :
            batch[i].url = u /\ \A j \in DOMAIN batch : batch[j].url = u => j <= i]
\* C24: under "exactURLMatch" an archive in which no two entries share a url
\* stays so after every wrangle call, also when the list holds several tabs
\* of one url; the entry kept for a url is the tab closed last, and every
\* entry precedes the entries closed before it.
C24_OneEntryPerUrl ==
    [][(/\ events' = events + 1
        /\ settings.wrangleOption = "exactURLMatch"
        /\ NoSharedUrl(localStorage.savedTabs)) =>
         LET new == localStorage'.savedTabs
             batch == man'.tabs
         IN /\ NoSharedUrl(new)
            /\ NewestFirst(new)
            /\ \A i \in DOMAIN new :
                  IF \E t \in Range(batch) : t.url = new[i].url
                  THEN /\ new[i].id = LastWithUrl(batch, new[i].url).id
                       /\ new[i].closedAt = now
                       /\ \A j \in 1..(i - 1) : new[j].id \in OpenIds(tabs)
                  ELSE new[i] \in Range(localStorage.savedTabs)]_vars
\* Reached: two tabs of one url were wrangled under "exactURLMatch" into an
\* archive that keeps an entry of another url behind the tab closed last.
C24_Witness ==
    /\ events = 1
    /\ settings.wrangleOption = "exactURLMatch"
    /\ settings.maxTabs = MaxSaved
    /\ Len(man.tabs) = 2
    /\ man.tabs[1].url = man.tabs[2].url
    /\ Len(localStorage.savedTabs) = 2
    /\ localStorage.savedTabs[1].id = man.tabs[2].id
    /\ localStorage.savedTabs[2].url # man.tabs[2].url

\* The per-window evaluation of the running cycle ends.
EndsWindows == cyc.pc = "windows" /\ cyc'.pc = "sync"
\* The tabs of the snapshot in the focused window, when the floor keeps all
\* of them: the filtered size of the group minus minTabs is at most 0.
FloorGroups ==
    {g \in {{t \in Range(cyc.allTabs) : t.windowId = w.id} :
              w \in {x \in Range(cyc'.windows) : x.focused}} :
       Cardinality(Passing(g)) - cyc.minTabs <= 0}
\* The time of the tab t at the end of the critical section is not older
\* than the start of the cycle.
ResetAtEnd(t) ==
    /\ Has(memoryTabTimes', ToStr(t.id))
    /\ memoryTabTimes'[ToStr(t.id)] >= cyc.cutOff + StayOpen
\* C25 as claimed: when the floor keeps every tab of the focused window,
\* every tab of that window has a cached time no older than the cycle's start
\* when the cycle ends.
C25_FloorResetsGroup ==
    [][EndsWindows => \A g \in FloorGroups : \A t \in g : ResetAtEnd(t)]_vars
\* C25 as amended: ... every tab of that window that passes the
\* should-be-closed filter.
C25_FloorResetsPassing ==
    [][EndsWindows => \A g \in FloorGroups : \A t \in Passing(g) : ResetAtEnd(t)]_vars
\* Reached: the floor kept the tabs of the focused window, one of them was
\* older than the cut-off, and its time is now the cycle's update time.
C25_Witness ==
    /\ cyc.pc = "sync"
    /\ cyc.strategy = "givenWindow"
    /\ events = 0
    /\ \E w \in Range(cyc.windows) :
         /\ w.focused
         /\ LET g == {t \in Range(cyc.allTabs) : t.windowId = w.id}
            IN /\ Cardinality(Passing(g)) - cyc.minTabs <= 0
               /\ \E t \in Passing(g) :
                    /\ HadTime(t) /\ Time0(t) < cyc.cutOff
                    /\ memoryTabTimes[ToStr(t.id)] = cyc.updatedAt
                    /\ t.id # activeTab

\* The windows.onRemoved handler takes what chrome.windows.getAll returned;
\* it completes after its forced sync.
GotWindows == onRemoved = "getAll" /\ onRemoved' # "getAll"
NoWindowLeft == OpenIds(tabs) = {}
FlushCompletes == onRemoved = "sync" /\ onRemoved' = "idle"
\* C26 as claimed: when the handler of a window-removed event finds no window
\* left, storage equals the cache when the handler completes, in every state
\* in which the last window can close; when a window is left the handler
\* writes nothing.
C26_LastWindowFlushes ==
    [][/\ FlushCompletes =>
            (stTabTimes' = memoryTabTimes' /\ stTabTimesByUrl' = memoryTabTimesByUrl')
       /\ (GotWindows /\ ~NoWindowLeft) => UNCHANGED <<stTabTimes, stTabTimesByUrl>>]_vars
\* C26 as amended: when the handler finds no window left, initTabTimes has
\* run and the write is accepted, storage equals the cache when the write is
\* made, also while a cycle is in progress; before initTabTimes has run, or
\* when a window is left, the handler writes nothing.
C26_FlushesOnceInitialized ==
    [][/\ (GotWindows /\ NoWindowLeft /\ isInitialized /\ ~storageFails) =>
            (stTabTimes' = memoryTabTimes' /\ stTabTimesByUrl' = memoryTabTimesByUrl')
       /\ (GotWindows /\ (~NoWindowLeft \/ ~isInitialized)) =>
            UNCHANGED <<stTabTimes, stTabTimesByUrl>>]_vars
\* Reached: the last window closed while a cycle had refreshed an audible
\* tab and not yet synced; the handler has written that time to storage.
C26_Witness ==
    /\ onRemoved = "sync"
    /\ cyc.pc = "windows"
    /\ isInitialized /\ ~storageFails
    /\ NoWindowLeft
    /\ stTabTimes = memoryTabTimes
    /\ Has(stTabTimes, ToStr(2)) /\ stTabTimes[ToStr(2)] = cyc.updatedAt

\* C27: for every stayOpen setting the delay of the next check is stayOpen / 20
\* clamped to [30 000 ms, 10 800 000 ms]: never under 30 s, never over 3 h,
\* stayOpen / 20 itself inside the range, and no smaller for a larger
\* stayOpen.  The delay is counted in twentieths of a millisecond.
C27_DelayClamped ==
    schedule # NoSchedule =>
        LET s == schedule.stayOpenTime
            d == schedule.intervalMs
        IN /\ d >= 20 * 30000
           /\ d <= 20 * 10800000
           /\ (20 * 30000 <= s /\ s <= 20 * 10800000) => d = s
           /\ s < 20 * 30000 => d = 20 * 30000
           /\ s > 20 * 10800000 => d = 20 * 10800000
           /\ \A s2 \in StayOpenTimes : s2 <= s => intervalMs(s2) <= d
\* Reached: a stayOpen of 600 001 ms gave the delay 30 000.05 ms.
C27_Witness ==
    /\ alarm
    /\ schedule.stayOpenTime = 20 * 30000 + 1
    /\ schedule.intervalMs = 20 * 30000 + 1

\* ------------------------------------------------------- tabs.onActivated
\* The user activates another open tab of the window.  The listener records
\* the activation at once, or, with the setting debounceOnActivated, hands
\* the tab id to debounce(): a call clears the pending timer and starts a new
\* one with its own argument (debounce.ts lines 10 and 20-26).  The setting is
\* read when the event arrives.  One activation is explored: the one that
\* leaves tab 1, the tab that is active at first.
OnActivated ==
    /\ activeTab = 1
    /\ \E i \in OpenIds(tabs) \ {activeTab} :
         /\ activeTab' = i
         /\ \E debounceOnActivated \in BOOLEAN :
              IF debounceOnActivated
              THEN timer' = i /\ UNCHANGED memoryTabTimes
              ELSE timer' = timer /\ memoryTabTimes' = updateLastAccessed(memoryTabTimes, i, now)
    /\ UNCHANGED <<cycB, rep, lockSettings, lockLocalStorage, initTabsPc, slot, localStorage,
                   wr, man, storageFails, schedule, onRemoved,
                   now, events, tabs, settings, memoryTabTimesByUrl, isInitialized, stTabTimes,
                   stTabTimesByUrl, lock, alarm, startupComplete, cyc, st>>

\* The timer of debounce() fires: updateLastAccessed runs with the tab id of
\* the last call (debounce.ts lines 20-26).
TimerFires ==
    /\ timer # 0
    /\ timer' = 0
    /\ memoryTabTimes' = updateLastAccessed(memoryTabTimes, timer, now)
    /\ UNCHANGED <<cycB, rep, lockSettings, lockLocalStorage, initTabsPc, slot, localStorage,
                   wr, man, storageFails, schedule, onRemoved,
                   now, events, tabs, activeTab, settings, memoryTabTimesByUrl, isInitialized,
                   stTabTimes, stTabTimesByUrl, lock, alarm, startupComplete, cyc, st>>

\* The running extension with one window: the active tab was activated just
\* now and its activation is recorded; the other tabs were used at the
\* cut-off or before it.
InitActivate ==
    /\ now = Now0
    /\ events = 0
    /\ tabs = [i \in TabIds |-> [windowId |-> 1, url |-> UrlA, pinned |-> FALSE,
                                 audible |-> FALSE, groupId |-> -1]]
    /\ activeTab = 1
    /\ settings \in [minTabs : {0, 1}, minTabsStrategy : {"allWindows", "givenWindow"},
                     filterAudio : {FALSE}, filterGroupedTabs : {FALSE}, lockedIds : {<<>>},
                     maxTabs : {MaxSaved}, wrangleOption : {"withDuplicates"}]
    /\ \E old \in [{ToStr(i) : i \in TabIds \ {1}} -> Stamps] :
         memoryTabTimes = Put(old, ToStr(1), Now0)
    /\ memoryTabTimesByUrl = FillUrlTimes(EmptyMap, memoryTabTimes, QueryAllTabs(tabs))
    /\ isInitialized = TRUE
    /\ stTabTimes = memoryTabTimes
    /\ stTabTimesByUrl = memoryTabTimesByUrl
    /\ lock = "free"
    /\ alarm = TRUE
    /\ startupComplete = TRUE
    /\ cyc = IdleCyc
    /\ st = StartupDone
    /\ MoreIdle
NextActivate ==
    \/ AlarmFires
    \/ CheckPaused
    \/ AcquireTabTimes
    \/ CutStep
    \/ SelectStep
    \/ WindowsStep
    \/ ReleaseStep
    \/ WrangleStep
    \/ FinallyStep
    \/ Tick
    \/ OnActivated
    \/ TimerFires
    \/ ToggleLock
SpecActivate == InitActivate /\ [][NextActivate]_vars

\* C28: when a cycle returns its candidates, the active tab of the window is
\* not among them.
C28_ActiveNeverCandidate ==
    [][(~Selected /\ Selected') => activeTab' \notin {t.id : t \in Range(cyc'.candidateTabs)}]_vars

\* C29: when the critical section returns the candidates and when the cycle
\* wrangles them, every candidate passes the should-be-closed filter of the
\* settings of that moment, so filtering again would remove nothing.
C29_RefilterRemovesNothing ==
    [][(cyc.pc \in {"sync", "wrangle"} /\ cyc'.pc # cyc.pc)
       => \A t \in Cands : shouldTabBeClosed(createShouldTabBeClosedFilter(settings), t)]_vars

\* The steps of a checkToClose that found the paused flag set: the return at
\* line 577 and the finally block.  Only such a cycle reaches the finally
\* block without a cut-off.
PausedReturn == cyc.pc = "paused" /\ cyc'.pc = "finally"
PausedFinally == cyc.pc = "finally" /\ cyc.cutOff = 0 /\ cyc'.pc = "idle"
\* C30: a cycle that finds the paused flag set changes no tab, no timestamp
\* of the id or url map in memory, nothing in durable storage, no archive
\* entry and no counter; its finally block schedules the next check.
C30_PausedChangesNothing ==
    [][(PausedReturn \/ PausedFinally)
       => /\ UNCHANGED <<tabs, activeTab, settings, memoryTabTimes, memoryTabTimesByUrl,
                         stTabTimes, stTabTimesByUrl, localStorage, lock>>
          /\ (PausedFinally => alarm')]_vars
\* A paused cycle is in its finally block while a tab is older than the
\* cut-off a running cycle would use.
C30_Witness ==
    /\ cyc.pc = "finally"
    /\ cyc.cutOff = 0
    /\ getTabsOlderThan(memoryTabTimes, now - StayOpen) \cap OpenIds(tabs) # {}

\* ---------------------------------------------------------- tabs.onReplaced
\* The worker starts with two tabs of one window, the second possibly
\* locked; the browser replaces a tab while startup(), a checkToClose and
\* the onActivated listener run beside the handler; chrome.storage.local may
\* reject the writes of the tab times.
InitReplace ==
    /\ now = Now0
    /\ events = 0
    /\ tabs = [i \in TabIds |-> IF i <= 2 THEN WakeTab ELSE NoTab]
    /\ activeTab = 1
    /\ settings \in [minTabs : {0}, minTabsStrategy : {"allWindows", "givenWindow"},
                     filterAudio : {FALSE}, filterGroupedTabs : {FALSE},
                     lockedIds : {<<>>, <<2>>, <<1, 2>>},
                     maxTabs : {MaxSaved}, wrangleOption : {"withDuplicates"}]
    /\ memoryTabTimes = EmptyMap
    /\ memoryTabTimesByUrl = EmptyMap
    /\ isInitialized = FALSE
    /\ stTabTimes = [k \in {ToStr(1), ToStr(2)} |-> Now0 - StayOpen - 1]
    /\ stTabTimesByUrl = [u \in {UrlA} |-> Now0 - StayOpen - 1]
    /\ lock = "free"
    /\ alarm \in BOOLEAN
    /\ startupComplete = FALSE
    /\ cyc = IdleCyc
    /\ st = StartupIdle
    /\ cycB = IdleCyc
    /\ rep = IdleRep
    /\ lockSettings = "free"
    /\ lockLocalStorage = "free"
    /\ initTabsPc = "idle"
    /\ slot = 1
    /\ localStorage = Untracked
    /\ wr = Untracked
    /\ man = IdleMan
    /\ storageFails \in BOOLEAN
    /\ schedule = NoSchedule
    /\ onRemoved = "idle"
    /\ timer = 0
NextReplace ==
    \/ AlarmFires
    \/ CycStep
    \/ StartupStep
    \/ OnActivated
    \/ TimerFires
    \/ ReplaceEvent
    \/ ReplaceStep
SpecReplace == InitReplace /\ [][NextReplace]_vars

\* The steps of the handler: lines 473-480 on the locked ids, lines 482-488
\* on the tab times.
LockedIdsDone == rep.pc = "get" /\ rep'.pc # "get"
TimesDone == rep.pc \in {"get", "set"} /\ rep'.pc \in {"sync", "idle"}
RemovedKey == ToStr(rep.removedTabId)
AddedKey == ToStr(rep.addedTabId)
\* What the handler does to the locked ids and to the map of the ids.
LockedIdsReplaced ==
    IF rep.removedTabId \in Range(settings.lockedIds)
    THEN /\ Len(settings'.lockedIds) = Len(settings.lockedIds)
         /\ \A k \in DOMAIN settings.lockedIds :
              settings'.lockedIds[k] = IF settings.lockedIds[k] = rep.removedTabId
                                       THEN rep.addedTabId ELSE settings.lockedIds[k]
         /\ rep.removedTabId \notin Range(settings'.lockedIds)
    ELSE UNCHANGED settings
TimeMoved ==
    /\ memoryTabTimes' = Put(Del(memoryTabTimes, RemovedKey), AddedKey, memoryTabTimes[RemovedKey])
    /\ ~Has(memoryTabTimes', RemovedKey)
    /\ UNCHANGED memoryTabTimesByUrl
\* C31: the handler moves the time of the removed tab to the added one and
\* persists both maps, puts the added tab at the place of a locked removed
\* tab, and changes nothing else; without a time the maps stay as they are.
C31_ReplaceMovesAndPersists ==
    [][/\ LockedIdsDone => LockedIdsReplaced
       /\ TimesDone =>
            IF Has(memoryTabTimes, RemovedKey)
            THEN /\ TimeMoved
                 /\ stTabTimes' = memoryTabTimes'
                 /\ stTabTimesByUrl' = memoryTabTimesByUrl'
            ELSE UNCHANGED <<memoryTabTimes, memoryTabTimesByUrl, stTabTimes, stTabTimesByUrl>>]_vars
\* C31 as it holds: the maps are persisted when the cache has been
\* initialised and storage takes the write; otherwise storage stays as it was.
C31_ReplaceMovesTime ==
    [][/\ LockedIdsDone => LockedIdsReplaced
       /\ TimesDone =>
            IF Has(memoryTabTimes, RemovedKey)
            THEN /\ TimeMoved
                 /\ IF isInitialized /\ ~storageFails
                    THEN stTabTimes' = memoryTabTimes' /\ stTabTimesByUrl' = memoryTabTimesByUrl'
                    ELSE UNCHANGED <<stTabTimes, stTabTimesByUrl>>
            ELSE UNCHANGED <<memoryTabTimes, memoryTabTimesByUrl, stTabTimes, stTabTimesByUrl>>]_vars
\* The handler has moved the time of a locked tab and the maps are written:
\* the added tab is locked at its place, the removed tab has no time.
C31_Witness ==
    /\ rep.pc = "sync"
    /\ isInitialized
    /\ ~storageFails
    /\ rep.addedTabId \in Range(settings.lockedIds)
    /\ Len(settings.lockedIds) = 2
    /\ Has(memoryTabTimes, AddedKey)
    /\ ~Has(memoryTabTimes, RemovedKey)
    /\ Has(stTabTimes, AddedKey)
    /\ DOMAIN memoryTabTimes # {AddedKey}

\* ------------------------------------------------------ eviction, for ever
\* The user opens a tab in the background: the browser adds it to the
\* window and tabs.onCreated records Date.now() for it (startup is over).
\* The id of a closed tab is used again, which keeps the ids finite; the
\* new tab gets its own time, and the snapshot lists it before the tabs of
\* larger id.
UserOpensTab ==
    /\ startupComplete
    /\ \E i \in TabIds \ OpenIds(tabs) :
         /\ tabs' = [tabs EXCEPT ![i] = WakeTab]
         /\ memoryTabTimes' = onCreated(startupComplete, memoryTabTimes, i, now)
    /\ UNCHANGED <<more, now, events, activeTab, settings, memoryTabTimesByUrl, isInitialized,
                   stTabTimes, stTabTimesByUrl, lock, alarm, startupComplete, cyc, st>>

\* One unit of time passes between two cycles.  The code looks at a time
\* only to compare it with Date.now() - stayOpen, so the clock is held and
\* every recorded time moves back by one instead; a time older than the
\* cut-off stays where it is.
Oldest == Now0 - StayOpen - 1
Aged(m) == [k \in DOMAIN m |-> IF m[k] > Oldest THEN m[k] - 1 ELSE m[k]]
TimePasses ==
    /\ cyc.pc = "idle"
    /\ memoryTabTimes' = Aged(memoryTabTimes)
    /\ memoryTabTimesByUrl' = Aged(memoryTabTimesByUrl)
    /\ stTabTimes' = Aged(stTabTimes)
    /\ stTabTimesByUrl' = Aged(stTabTimesByUrl)
    /\ UNCHANGED <<more, now, events, tabs, activeTab, settings, isInitialized, lock, alarm,
                   startupComplete, cyc, st>>

\* The running extension with one window: the first tab is pinned and
\* active, the last one was used before the cut-off and is never activated.
InitEvict ==
    /\ now = Now0
    /\ events = 0
    /\ tabs = [i \in TabIds |-> IF i = 1 THEN [WakeTab EXCEPT !.pinned = TRUE] ELSE WakeTab]
    /\ activeTab = 1
    /\ settings \in [minTabs : {1}, minTabsStrategy : {"allWindows", "givenWindow"},
                     filterAudio : {FALSE}, filterGroupedTabs : {FALSE}, lockedIds : {<<>>},
                     maxTabs : {MaxSaved}, wrangleOption : {"withDuplicates"}]
    /\ \E t \in Oldest..Now0 :
         memoryTabTimes = [k \in {ToStr(i) : i \in TabIds} |->
                             IF k = ToStr(1) THEN Now0 ELSE IF k = ToStr(MaxTabs) THEN Oldest ELSE t]
    /\ memoryTabTimesByUrl = FillUrlTimes(EmptyMap, memoryTabTimes, QueryAllTabs(tabs))
    /\ isInitialized = TRUE
    /\ stTabTimes = memoryTabTimes
    /\ stTabTimesByUrl = memoryTabTimesByUrl
    /\ lock = "free"
    /\ alarm = TRUE
    /\ startupComplete = TRUE
    /\ cyc = IdleCyc
    /\ st = StartupDone
    /\ MoreIdle
\* The steps of the one checkToClose, its wrangle step in one piece.
EvictCycle ==
    \/ CheckPaused
    \/ AcquireTabTimes
    \/ CutStep
    \/ SelectStep
    \/ WindowsStep
    \/ ReleaseStep
    \/ WrangleStep
    \/ FinallyStep
NextEvict ==
    \/ AlarmFires
    \/ EvictCycle
    \/ UserOpensTab
    \/ TimePasses
\* The alarm service delivers the alarm that scheduleCheckToClose has set,
\* and the event loop runs every continuation of the cycle; the user and the
\* clock owe nothing.
FairEvict ==
    /\ WF_vars(AlarmFires)
    /\ WF_vars(EvictCycle)
SpecEvict == InitEvict /\ [][NextEvict]_vars /\ FairEvict

\* The tab that waits for its eviction, and the group the running cycle
\* counts for it.
Waiting == MaxTabs
GroupOfWaiting ==
    SelectSeq(cyc.allTabs,
              LAMBDA t : /\ shouldTabBeClosed(createShouldTabBeClosedFilter(settings), t)
                         /\ (settings.minTabsStrategy = "allWindows"
                             \/ t.windowId = tabs[Waiting].windowId))
\* The tab is live, not active, not locked, passes the filter, its time is
\* older than the cut-off; no cycle found the paused flag set; the cycle
\* that has taken its snapshot counts more than minTabs tabs in the group.
WaitingEligible ==
    /\ IsOpen(tabs, Waiting)
    /\ activeTab # Waiting
    /\ shouldTabBeClosed(createShouldTabBeClosedFilter(settings), TabRec(tabs, Waiting))
    /\ Has(memoryTabTimes, ToStr(Waiting))
    /\ memoryTabTimes[ToStr(Waiting)] < now - StayOpen
    /\ ~(cyc.pc = "finally" /\ cyc.cutOff = 0)
    /\ (cyc.pc \in {"active", "windows"} => Len(GroupOfWaiting) > settings.minTabs)
WaitingCandidate == Selected /\ \E t \in Cands : t.id = Waiting
\* C32: with a fair alarm, a tab that stays as WaitingEligible says is a
\* candidate of some cycle.
C32_EventuallyCandidate == <>(~WaitingEligible \/ WaitingCandidate)

=============================================================================
